---- MODULE Spec2Model ----
(***************************************************************************)
(* The property engine of the BPMN editor: the schema registry, the        *)
(* property store (CustomPropertiesService), the validation and business   *)
(* rule engine (ValidationService) and the DiagramComponent handlers that  *)
(* drive them.                                                             *)
(***************************************************************************)
EXTENDS Integers, Sequences, FiniteSets, TLC

(***************************************************************************)
(* JavaScript values.  Every value is a record of the same shape: k is the *)
(* runtime kind, s the text of a string, n the number (1/0 for a boolean,  *)
(* the number of own keys for an object), a the items of an array.         *)
(***************************************************************************)
JsVal(k, s, n, a) == [k |-> k, s |-> s, n |-> n, a |-> a]
Undefined == JsVal("undefined", "", 0, <<>>)
Null == JsVal("null", "", 0, <<>>)
Str(s) == JsVal("string", s, 0, <<>>)
Num(n) == JsVal("number", "", n, <<>>)
Bool(b) == JsVal("boolean", "", IF b THEN 1 ELSE 0, <<>>)
Arr(a) == JsVal("array", "", 0, a)
Obj(n) == JsVal("object", "", n, <<>>)
JsError == JsVal("error", "", 0, <<>>)

\* Boolean(v)
Truthy(v) ==
  CASE v.k = "undefined" -> FALSE
    [] v.k = "null" -> FALSE
    [] v.k = "error" -> FALSE
    [] v.k = "string" -> v.s # ""
    [] v.k = "number" -> v.n # 0
    [] v.k = "boolean" -> v.n = 1
    [] OTHER -> TRUE

\* a === b on primitives
StrictEquals(a, b) == a.k = b.k /\ a.s = b.s /\ a.n = b.n /\ a.k \notin {"array", "object"}

\* Maps (JavaScript Map and plain objects): functions over their key set.
EmptyMap == [x \in {} |-> Undefined]
Has(m, key) == key \in DOMAIN m
Put(m, key, v) == [x \in (DOMAIN m) \cup {key} |-> IF x = key THEN v ELSE m[x]]
Del(m, key) == [x \in (DOMAIN m) \ {key} |-> m[x]]
\* obj[key]: undefined when the key is absent
Get(obj, key) == IF key \in DOMAIN obj THEN obj[key] ELSE Undefined
\* Object.assign(target, source)
Assign(target, source) ==
  [x \in (DOMAIN target) \cup (DOMAIN source) |-> IF x \in DOMAIN source THEN source[x] ELSE target[x]]

(***************************************************************************)
(* Text helpers.                                                           *)
(***************************************************************************)
Letters == {"a","b","c","d","e","f","g","h","i","j","k","l","m","n","o","p","q","r","s","t","u","v","w","x","y","z",
            "A","B","C","D","E","F","G","H","I","J","K","L","M","N","O","P","Q","R","S","T","U","V","W","X","Y","Z"}
Digits == {"0","1","2","3","4","5","6","7","8","9"}
CharAt(s, i) == SubSeq(s, i, i)

\* the one pattern the schemas use, rule 'pattern' of CommonProperties.id and
\* the regular expression literal of rule formKeyFormat
IdPattern == "^[a-zA-Z][a-zA-Z0-9_-]*$"
IdPatternTest(s) ==
  /\ Len(s) >= 1
  /\ CharAt(s, 1) \in Letters
  /\ \A i \in 2..Len(s) : CharAt(s, i) \in Letters \cup Digits \cup {"_", "-"}

\* a pattern text new RegExp(...) rejects with a SyntaxError
InvalidPattern == "["
RegExpThrows(pattern) == pattern = InvalidPattern
\* new RegExp(pattern).test(s): the pattern of the schemas, and the empty
\* pattern (also that of new RegExp(undefined)), which every text matches
RegExpTest(pattern, s) ==
  CASE pattern = IdPattern -> IdPatternTest(s)
    [] pattern = "" -> TRUE
    [] OTHER -> FALSE

\* String(v), for the kinds a rule condition is applied to
DigitText(d) == CASE d = 0 -> "0" [] d = 1 -> "1" [] d = 2 -> "2" [] d = 3 -> "3" [] d = 4 -> "4"
                  [] d = 5 -> "5" [] d = 6 -> "6" [] d = 7 -> "7" [] d = 8 -> "8" [] OTHER -> "9"
RECURSIVE NatText(_)
NatText(n) == IF n < 10 THEN DigitText(n) ELSE NatText(n \div 10) \o DigitText(n % 10)
RECURSIVE JoinComma(_)
JoinComma(a) == IF a = <<>> THEN "" ELSE IF Len(a) = 1 THEN a[1] ELSE a[1] \o "," \o JoinComma(Tail(a))
ToText(v) ==
  CASE v.k = "string" -> v.s
    [] v.k = "number" -> IF v.n < 0 THEN "-" \o NatText(0 - v.n) ELSE NatText(v.n)
    [] v.k = "boolean" -> IF v.n = 1 THEN "true" ELSE "false"
    [] v.k = "undefined" -> "undefined"
    [] v.k = "null" -> "null"
    [] v.k = "array" -> JoinComma(v.a)
    [] OTHER -> "[object Object]"

(***************************************************************************)
(* Schema registry (bpmn-elements.model.ts, element-schemas.ts).           *)
(***************************************************************************)
Rule(type, value, message) == [type |-> type, value |-> value, message |-> message]
NoConditional == [dependsOn |-> "", values |-> {}]
Conditional(dependsOn, values) == [dependsOn |-> dependsOn, values |-> values]
\* a PropertyDefinition; defaultValue is Undefined and validation <<>> when the
\* definition does not declare them
PD(id, name, type, label, defaultValue, validation, group, order, conditional) ==
  [id |-> id, name |-> name, type |-> type, label |-> label, defaultValue |-> defaultValue,
   validation |-> validation, group |-> group, order |-> order, conditional |-> conditional]

CommonId == PD("id", "id", "text", "Element ID", Undefined,
  << Rule("required", Undefined, "Element ID is required"),
     Rule("pattern", Str(IdPattern), "ID must start with a letter and contain only letters, numbers, underscores, and hyphens") >>,
  "general", 1, NoConditional)
\* CommonProperties.name declared under the id of CommonProperties.id
CommonNameAsId == PD("id", "id", "text", "Name", Undefined, <<>>, "general", 2, NoConditional)
CommonName == PD("name", "name", "text", "Name", Undefined, <<>>, "general", 2, NoConditional)
CommonDocumentation == PD("documentation", "documentation", "textarea", "Documentation", Undefined, <<>>, "general", 3, NoConditional)
CommonPriority == PD("priority", "priority", "select", "Priority", Str("medium"), <<>>, "execution", 10, NoConditional)
CommonAssignee == PD("assignee", "assignee", "text", "Assignee", Undefined, <<>>, "execution", 11, NoConditional)
CommonDueDate == PD("dueDate", "dueDate", "datetime", "Due Date", Undefined, <<>>, "execution", 12, NoConditional)
CommonCategory == PD("category", "category", "select", "Category", Undefined, <<>>, "classification", 20, NoConditional)
CommonTags == PD("tags", "tags", "multiSelect", "Tags", Undefined, <<>>, "classification", 21, NoConditional)
CommonIsActive == PD("isActive", "isActive", "boolean", "Active", Bool(TRUE), <<>>, "status", 30, NoConditional)

UserTaskProperties == <<
  CommonId, CommonName, CommonDocumentation, CommonAssignee, CommonDueDate, CommonPriority,
  PD("formKey", "formKey", "text", "Form Key", Undefined, <<>>, "technical", 40, NoConditional),
  PD("candidateUsers", "candidateUsers", "text", "Candidate Users", Undefined, <<>>, "execution", 13, NoConditional),
  PD("candidateGroups", "candidateGroups", "text", "Candidate Groups", Undefined, <<>>, "execution", 14, NoConditional),
  PD("skipExpression", "skipExpression", "text", "Skip Expression", Undefined, <<>>, "advanced", 50, NoConditional),
  CommonCategory, CommonTags, CommonIsActive >>

ServiceTaskProperties == <<
  CommonId, CommonName, CommonDocumentation,
  PD("implementation", "implementation", "select", "Implementation Type", Str("java"), <<>>, "technical", 40, NoConditional),
  PD("javaClass", "javaClass", "text", "Java Class", Undefined, <<>>, "technical", 41,
     Conditional("implementation", {Str("java")})),
  PD("expression", "expression", "text", "Expression", Undefined, <<>>, "technical", 42,
     Conditional("implementation", {Str("expression"), Str("delegateExpression")})),
  PD("topic", "topic", "text", "External Task Topic", Undefined, <<>>, "technical", 43,
     Conditional("implementation", {Str("external")})),
  PD("retryTimeCycle", "retryTimeCycle", "text", "Retry Time Cycle", Undefined, <<>>, "advanced", 51, NoConditional),
  PD("timeout", "timeout", "number", "Timeout (seconds)", Num(300),
     << Rule("min", Num(1), "Timeout must be at least 1 second") >>, "execution", 15, NoConditional),
  CommonPriority, CommonCategory, CommonTags, CommonIsActive >>

ScriptTaskProperties == <<
  CommonId, CommonName, CommonDocumentation,
  PD("scriptFormat", "scriptFormat", "select", "Script Language", Str("javascript"), <<>>, "technical", 40, NoConditional),
  PD("script", "script", "textarea", "Script", Undefined,
     << Rule("required", Undefined, "Script is required") >>, "technical", 41, NoConditional),
  CommonPriority, CommonCategory, CommonTags, CommonIsActive >>

ExclusiveGatewayProperties == <<
  CommonId, CommonName, CommonDocumentation,
  PD("defaultFlow", "defaultFlow", "text", "Default Flow", Undefined, <<>>, "technical", 40, NoConditional),
  PD("decisionCriteria", "decisionCriteria", "textarea", "Decision Criteria", Undefined, <<>>, "business", 60, NoConditional),
  CommonCategory, CommonTags, CommonIsActive >>

ParallelGatewayProperties == <<
  CommonId, CommonName, CommonDocumentation, CommonCategory, CommonTags, CommonIsActive >>

StartEventProperties == <<
  CommonId, CommonName, CommonDocumentation,
  PD("eventType", "eventType", "select", "Event Type", Str("none"), <<>>, "technical", 40, NoConditional),
  PD("timerDefinition", "timerDefinition", "text", "Timer Definition", Undefined, <<>>, "technical", 41,
     Conditional("eventType", {Str("timer")})),
  PD("messageRef", "messageRef", "text", "Message Reference", Undefined, <<>>, "technical", 42,
     Conditional("eventType", {Str("message")})),
  PD("initiator", "initiator", "text", "Initiator", Undefined, <<>>, "execution", 13, NoConditional),
  CommonCategory, CommonTags, CommonIsActive >>

EndEventProperties == <<
  CommonId, CommonName, CommonDocumentation,
  PD("eventType", "eventType", "select", "Event Type", Str("none"), <<>>, "technical", 40, NoConditional),
  CommonCategory, CommonTags, CommonIsActive >>

SequenceFlowProperties == <<
  CommonId, CommonName, CommonDocumentation,
  PD("conditionExpression", "conditionExpression", "text", "Condition Expression", Undefined, <<>>, "technical", 40, NoConditional),
  PD("isDefault", "isDefault", "boolean", "Default Flow", Bool(FALSE), <<>>, "technical", 41, NoConditional),
  CommonPriority, CommonCategory, CommonTags, CommonIsActive >>

(***************************************************************************)
(* Business rules.  A condition is the parse tree of the rule's JavaScript *)
(* expression: ref (an identifier), lit (a string literal), not, and, or,  *)
(* eq (===) and test (a regular expression literal applied to an operand). *)
(***************************************************************************)
Ref(name) == [op |-> "ref", name |-> name]
Lit(text) == [op |-> "lit", text |-> text]
Not(x) == [op |-> "not", x |-> x]
And(l, r) == [op |-> "and", l |-> l, r |-> r]
Or(l, r) == [op |-> "or", l |-> l, r |-> r]
Eq(l, r) == [op |-> "eq", l |-> l, r |-> r]
Test(pattern, x) == [op |-> "test", pattern |-> pattern, x |-> x]
\* a text that is no JavaScript expression: new Function raises a SyntaxError
Malformed == [op |-> "malformed"]

BusinessRule(id, condition, action, target, value, message) ==
  [id |-> id, condition |-> condition, action |-> action, target |-> target, value |-> value, message |-> message]

UserTaskBusinessRules == <<
  BusinessRule("assigneeRequired",
    And(And(Not(Ref("assignee")), Not(Ref("candidateUsers"))), Not(Ref("candidateGroups"))),
    "validate", "", Undefined,
    "User task must have an assignee, candidate users, or candidate groups defined"),
  BusinessRule("formKeyFormat",
    And(Ref("formKey"), Not(Test(IdPattern, Ref("formKey")))),
    "validate", "", Undefined,
    "Form key should start with a letter and contain only letters, numbers, underscores, and hyphens") >>

ServiceTaskBusinessRules == <<
  BusinessRule("implementationRequired",
    And(Eq(Ref("implementation"), Lit("java")), Not(Ref("javaClass"))),
    "validate", "javaClass", Undefined,
    "Java class is required when implementation type is \"Java Class\""),
  BusinessRule("expressionRequired",
    And(Or(Eq(Ref("implementation"), Lit("expression")), Eq(Ref("implementation"), Lit("delegateExpression"))),
        Not(Ref("expression"))),
    "validate", "expression", Undefined,
    "Expression is required for this implementation type"),
  BusinessRule("topicRequired",
    And(Eq(Ref("implementation"), Lit("external")), Not(Ref("topic"))),
    "validate", "topic", Undefined,
    "Topic is required for external task implementation") >>

\* an ElementPropertySchema; businessRules is <<>> and hasBusinessRules FALSE
\* when the schema declares none
Schema(elementType, displayName, properties, hasBusinessRules, businessRules) ==
  [elementType |-> elementType, displayName |-> displayName, properties |-> properties,
   hasBusinessRules |-> hasBusinessRules, businessRules |-> businessRules]

ElementSchemas == <<
  Schema("bpmn:UserTask", "User Task", UserTaskProperties, TRUE, UserTaskBusinessRules),
  Schema("bpmn:ServiceTask", "Service Task", ServiceTaskProperties, TRUE, ServiceTaskBusinessRules),
  Schema("bpmn:ScriptTask", "Script Task", ScriptTaskProperties, FALSE, <<>>),
  Schema("bpmn:ExclusiveGateway", "Exclusive Gateway", ExclusiveGatewayProperties, FALSE, <<>>),
  Schema("bpmn:ParallelGateway", "Parallel Gateway", ParallelGatewayProperties, FALSE, <<>>),
  Schema("bpmn:StartEvent", "Start Event", StartEventProperties, FALSE, <<>>),
  Schema("bpmn:EndEvent", "End Event", EndEventProperties, FALSE, <<>>),
  Schema("bpmn:SequenceFlow", "Sequence Flow", SequenceFlowProperties, FALSE, <<>>) >>

\* getElementSchema: ElementSchemas.find(...), <<>> for undefined
SchemaIndexes(schemas, elementType) == {i \in 1..Len(schemas) : schemas[i].elementType = elementType}
Find(schemas, elementType) ==
  IF SchemaIndexes(schemas, elementType) = {} THEN <<>>
  ELSE << schemas[CHOOSE i \in SchemaIndexes(schemas, elementType) :
                    \A j \in SchemaIndexes(schemas, elementType) : i <= j] >>
FindSchema(elementType) == Find(ElementSchemas, elementType)
HasSchema(elementType) == FindSchema(elementType) # <<>>
getElementSchema(elementType) == FindSchema(elementType)[1]
SupportedElementTypes(schemas) == {schemas[i].elementType : i \in 1..Len(schemas)}
getSupportedElementTypes == SupportedElementTypes(ElementSchemas)

\* PropertyGroups: label and order by group id (the icons are left out)
PropertyGroups ==
  [general |-> [label |-> "General", order |-> 1], execution |-> [label |-> "Execution", order |-> 2],
   classification |-> [label |-> "Classification", order |-> 3], status |-> [label |-> "Status", order |-> 4],
   technical |-> [label |-> "Technical", order |-> 5], business |-> [label |-> "Business", order |-> 6],
   integration |-> [label |-> "Integration", order |-> 7], advanced |-> [label |-> "Advanced", order |-> 8]]

(***************************************************************************)
(* ValidationService (validation.service.ts, lines 1-444).                 *)
(***************************************************************************)
\* ValidationContext; allElementsData is carried as the number of records
ValidationContext(elementId, elementType, allCount) ==
  [elementId |-> elementId, elementType |-> elementType, allCount |-> allCount]

isEmpty(value) ==
  \/ value.k = "null"
  \/ value.k = "undefined"
  \/ (value.k = "string" /\ value.s = "")
  \/ (value.k = "array" /\ value.a = <<>>)
  \/ (value.k = "object" /\ value.n = 0)

\* rule.message || fallback
MessageOr(message, fallback) == IF message # "" THEN message ELSE fallback

\* a rule of type 'custom': customValidator is "accepts", "rejects" or "throws",
\* what the predicate does when it is called
CustomRule(customValidator, message) ==
  [type |-> "custom", value |-> Undefined, message |-> message, customValidator |-> customValidator]

\* a raised exception that no handler has caught yet
Thrown == "<thrown>"
\* try { ... } catch { return message }
Caught(outcome, message) == IF outcome = Thrown THEN message ELSE outcome

\* the switch of validateRule with the typeof guards of min and max left out:
\* the comparison coerces the value, '' and [] to 0
RuleOutcomeCoercing(rule, value, property) ==
  CASE rule.type = "required" ->
         IF isEmpty(value) THEN MessageOr(rule.message, property.label \o " is required") ELSE ""
    [] rule.type = "min" ->
         IF rule.value.k = "number" /\ value.n < rule.value.n
         THEN MessageOr(rule.message, property.label \o " must be at least " \o ToText(rule.value)) ELSE ""
    [] rule.type = "max" ->
         IF rule.value.k = "number" /\ value.n > rule.value.n
         THEN MessageOr(rule.message, property.label \o " must not exceed " \o ToText(rule.value)) ELSE ""
    [] OTHER -> ""

\* the switch of validateRule: the message of the failed rule, "" for null,
\* Thrown when new RegExp raises.  rule.value is a number or absent for the
\* rules that compare, a pattern text or absent for pattern.  The rule kinds
\* email and url are used by no registered schema and are left out.
RuleOutcome(rule, value, property) ==
  CASE rule.type = "required" ->
         IF isEmpty(value) THEN MessageOr(rule.message, property.label \o " is required") ELSE ""
    [] rule.type = "minLength" ->
         IF value.k = "string" /\ rule.value.k = "number" /\ Len(value.s) < rule.value.n
         THEN MessageOr(rule.message, property.label \o " must be at least " \o ToText(rule.value) \o " characters") ELSE ""
    [] rule.type = "maxLength" ->
         IF value.k = "string" /\ rule.value.k = "number" /\ Len(value.s) > rule.value.n
         THEN MessageOr(rule.message, property.label \o " must not exceed " \o ToText(rule.value) \o " characters") ELSE ""
    [] rule.type = "min" ->
         IF value.k = "number" /\ rule.value.k = "number" /\ value.n < rule.value.n
         THEN MessageOr(rule.message, property.label \o " must be at least " \o ToText(rule.value)) ELSE ""
    [] rule.type = "max" ->
         IF value.k = "number" /\ rule.value.k = "number" /\ value.n > rule.value.n
         THEN MessageOr(rule.message, property.label \o " must not exceed " \o ToText(rule.value)) ELSE ""
    [] rule.type = "pattern" ->
         IF value.k = "string" /\ value.s # ""
         THEN IF RegExpThrows(rule.value.s) THEN Thrown
              ELSE IF ~RegExpTest(rule.value.s, value.s)
                   THEN MessageOr(rule.message, property.label \o " format is invalid") ELSE ""
         ELSE ""
    [] rule.type = "custom" ->
         IF "customValidator" \notin DOMAIN rule THEN ""
         ELSE IF rule.customValidator = "throws" THEN property.label \o " validation error"
         ELSE IF rule.customValidator = "rejects"
              THEN MessageOr(rule.message, property.label \o " validation failed") ELSE ""
    [] OTHER -> ""

\* validateRule without its try/catch
validateRuleUncaught(rule, value, property) == RuleOutcome(rule, value, property)
\* validateRule
validateRule(rule, value, property) ==
  Caught(RuleOutcome(rule, value, property), "Validation error for " \o property.label)

ValidationError(propertyId, message, rule) == [propertyId |-> propertyId, message |-> message, rule |-> rule]
ValidationWarning(propertyId, message, suggestion) ==
  [propertyId |-> propertyId, message |-> message, suggestion |-> suggestion]
\* ValidationResult where a warning makes the result invalid too
ValidationResultStrict(errors, warnings) ==
  [isValid |-> Len(errors) = 0 /\ Len(warnings) = 0, errors |-> errors, warnings |-> warnings]
ValidationResult(errors, warnings) == [isValid |-> Len(errors) = 0, errors |-> errors, warnings |-> warnings]
HasMessage(e) == e.message # ""

\* performCrossPropertyValidation with the assignee check made for every property
performCrossPropertyValidationEveryProperty(property, value, elementData, context) ==
  [errors |-> <<>>,
   warnings |->
     IF /\ context.elementType = "bpmn:UserTask"
        /\ ~Truthy(value)
        /\ ~Truthy(Get(elementData, "candidateUsers"))
        /\ ~Truthy(Get(elementData, "candidateGroups"))
     THEN << ValidationWarning(property.id, "User task should have assignee, candidate users, or candidate groups",
                               "Consider adding an assignee or candidate groups") >>
     ELSE <<>>]

\* performCrossPropertyValidation
performCrossPropertyValidation(property, value, elementData, context) ==
  [errors |->
     IF /\ context.elementType = "bpmn:ServiceTask"
        /\ property.id = "javaClass"
        /\ StrictEquals(Get(elementData, "implementation"), Str("java"))
        /\ ~Truthy(value)
     THEN << ValidationError(property.id, "Java class is required when implementation type is \"Java Class\"", "cross-property") >>
     ELSE <<>>,
   warnings |->
     IF /\ context.elementType = "bpmn:UserTask"
        /\ property.id = "assignee"
        /\ ~Truthy(value)
        /\ ~Truthy(Get(elementData, "candidateUsers"))
        /\ ~Truthy(Get(elementData, "candidateGroups"))
     THEN << ValidationWarning(property.id, "User task should have assignee, candidate users, or candidate groups",
                               "Consider adding an assignee or candidate groups") >>
     ELSE <<>>]

\* the loop over property.validation left at the first error
FirstOf(errors) == IF errors = <<>> THEN <<>> ELSE << Head(errors) >>
RuleErrorsOfUntilFirst(property, value) ==
  FirstOf(SelectSeq(
            [i \in 1..Len(property.validation) |->
               ValidationError(property.id, validateRule(property.validation[i], value, property), property.validation[i].type)],
            HasMessage))
\* validateProperty
RuleErrorsOf(property, value) ==
  SelectSeq(
    [i \in 1..Len(property.validation) |->
       ValidationError(property.id, validateRule(property.validation[i], value, property), property.validation[i].type)],
    HasMessage)
WithCrossProperty(ruleErrors, cross) == ValidationResult(ruleErrors \o cross.errors, cross.warnings)
validateProperty(property, value, elementData, context) ==
  WithCrossProperty(RuleErrorsOf(property, value),
                    performCrossPropertyValidation(property, value, elementData, context))

\* evaluateExpression.  The code prefixes every occurrence of a context key in
\* the expression text with 'context.' (word-boundary match, string literals
\* included) and evaluates the result: an identifier that is a key reads the
\* context, any other identifier raises a ReferenceError, a string literal whose
\* text is a key becomes the text 'context.<key>'.  JsError is a raised
\* exception; && and || short-circuit.
RECURSIVE EvalNode(_, _)
EvalNode(node, ctx) ==
  CASE node.op = "ref" -> IF Has(ctx, node.name) THEN ctx[node.name] ELSE JsError
    [] node.op = "lit" -> Str(IF Has(ctx, node.text) THEN "context." \o node.text ELSE node.text)
    [] node.op = "not" ->
         LET x == EvalNode(node.x, ctx) IN IF x.k = "error" THEN JsError ELSE Bool(~Truthy(x))
    [] node.op = "and" ->
         LET l == EvalNode(node.l, ctx)
         IN IF l.k = "error" THEN JsError ELSE IF Truthy(l) THEN EvalNode(node.r, ctx) ELSE l
    [] node.op = "or" ->
         LET l == EvalNode(node.l, ctx)
         IN IF l.k = "error" THEN JsError ELSE IF Truthy(l) THEN l ELSE EvalNode(node.r, ctx)
    [] node.op = "eq" ->
         LET l == EvalNode(node.l, ctx)
             r == EvalNode(node.r, ctx)
         IN IF l.k = "error" \/ r.k = "error" THEN JsError ELSE Bool(StrictEquals(l, r))
    [] node.op = "test" ->
         LET x == EvalNode(node.x, ctx)
         IN IF x.k = "error" THEN JsError ELSE Bool(RegExpTest(node.pattern, ToText(x)))
    [] OTHER -> JsError

\* try { return Boolean(result) } catch { return false }
BooleanOrFalse(v) == IF v.k = "error" THEN FALSE ELSE Truthy(v)
evaluateExpression(expression, ctx) == BooleanOrFalse(EvalNode(expression, ctx))

\* the evaluation context of executeBusinessRule
EvalContext(elementData, context) ==
  Assign(elementData,
         [elementId |-> Str(context.elementId), elementType |-> Str(context.elementType),
          allElements |-> JsVal("array", "", context.allCount, <<>>), process |-> Obj(0)])

\* executeBusinessRule: a BusinessRuleExecutionResult
executeBusinessRule(rule, elementData, context) ==
  [ruleId |-> rule.id,
   passed |-> ~evaluateExpression(rule.condition, EvalContext(elementData, context)),
   action |-> rule.action, target |-> rule.target, value |-> rule.value, message |-> rule.message]

RuleResults(rules, elementData, context) ==
  [i \in 1..Len(rules) |-> executeBusinessRule(rules[i], elementData, context)]

IsFailedValidate(result) == ~result.passed /\ result.action = "validate"
RuleError(result) ==
  ValidationError(IF result.target # "" THEN result.target ELSE "general",
                  MessageOr(result.message, "Business rule validation failed"), result.ruleId)

RECURSIVE Flatten(_)
Flatten(seqs) == IF seqs = <<>> THEN <<>> ELSE Head(seqs) \o Flatten(Tail(seqs))

\* performElementValidation
PropertyResults(schema, elementData, context) ==
  [i \in 1..Len(schema.properties) |->
     validateProperty(schema.properties[i], Get(elementData, schema.properties[i].name), elementData, context)]
RuleErrors(failed) == [i \in 1..Len(failed) |-> RuleError(failed[i])]
FailedRuleErrors(schema, elementData, context) ==
  IF schema.hasBusinessRules
  THEN RuleErrors(SelectSeq(RuleResults(schema.businessRules, elementData, context), IsFailedValidate))
  ELSE <<>>
CollectResults(perProperty, ruleErrors) ==
  ValidationResult(
    Flatten([i \in 1..Len(perProperty) |-> perProperty[i].errors]) \o ruleErrors,
    Flatten([i \in 1..Len(perProperty) |-> perProperty[i].warnings]))
\* performElementValidation with an error that depends on the other records
performElementValidationCounting(schema, elementData, context) ==
  CollectResults(PropertyResults(schema, elementData, context),
                 FailedRuleErrors(schema, elementData, context)
                   \o IF context.allCount > 0
                      THEN << ValidationError("general", "Other elements exist", "count") >> ELSE <<>>)
\* performElementValidation
performElementValidation(schema, elementData, context) ==
  CollectResults(PropertyResults(schema, elementData, context), FailedRuleErrors(schema, elementData, context))

(***************************************************************************)
(* CustomPropertiesService (validation.service.ts, lines 446-920).         *)
(*                                                                         *)
(* The operations are functions of a store S:                              *)
(*   props      propertiesSubject.value, elementId -> record               *)
(*   selected   the value of selectedElementSubject, "" for null           *)
(*   vres, bres the two maps of ValidationService                          *)
(*   selLast    the object last emitted by getSelectedElementProperties    *)
(*   gen        elementId -> the number of new record objects the running  *)
(*              call has stored under that id                              *)
(*   map        the number of new Map objects the running call has         *)
(*              published; 0 is the Map that was the value of              *)
(*              propertiesSubject when the call started                    *)
(* and of what the operation made observable while it ran:                 *)
(*   notifications  emissions of properties$                               *)
(*   validations    runs of performElementValidation                       *)
(*   emitted        values emitted by getSelectedElementProperties         *)
(*   observed       the property values a subscriber of any stream could   *)
(*                  read at each emission                                  *)
(* A JavaScript object is identified by the id it is stored under and its  *)
(* generation: 0 is the object that was in the map when the call started,  *)
(* -1 an object that had left the map before, n > 0 the n-th object the    *)
(* call has stored.                                                        *)
(***************************************************************************)
NoSelection == ""

Object(id, gen) == [id |-> id, gen |-> gen]
NoObject == Object("", 0)
Gen(S, id) == IF Has(S.gen, id) THEN S.gen[id] ELSE 0

Snapshot(S) == [e \in DOMAIN S.props |-> S.props[e].properties]
Observe(S, stream) == [S EXCEPT !.observed = Append(@, [stream |-> stream, values |-> Snapshot(S)])]

\* getSelectedElementProperties: combineLatest, map, distinctUntilChanged.
\* <<>> is undefined, <<record>> a record.
SelectedValue(S) == IF S.selected # NoSelection /\ Has(S.props, S.selected) THEN << S.props[S.selected] >> ELSE <<>>
SelectedObject(S) ==
  IF SelectedValue(S) = <<>> THEN NoObject ELSE Object(S.selected, Gen(S, S.selected))
PushSelected(S) ==
  IF SelectedObject(S) = S.selLast THEN S
  ELSE [S EXCEPT !.selLast = SelectedObject(S), !.emitted = Append(@, SelectedValue(S))]

\* propertiesSubject.next(map)
NotifyProperties(S) == PushSelected(Observe([S EXCEPT !.notifications = @ + 1], "properties$"))
\* selectedElementSubject.next(id)
NotifySelected(S, id) == PushSelected([S EXCEPT !.selected = id])

\* ValidationService.validateElement
StoreValidationResult(S, elementId, result) ==
  [S |-> Observe([S EXCEPT !.vres = Put(@, elementId, result), !.validations = @ + 1],
                 "validationResults$"),
   result |-> result]
validateElement(S, schema, elementData, context) ==
  StoreValidationResult(S, context.elementId, performElementValidation(schema, elementData, context))

\* the context validateElementProperties builds
ContextOf(S, elementProps) ==
  ValidationContext(elementProps.elementId, elementProps.elementType, Cardinality(DOMAIN S.props))
\* elementProps.validationResult = result
AttachResult(elementProps, v) ==
  [S |-> v.S, rec |-> [elementProps EXCEPT !.validationResult = << v.result >>]]
KeepResult(elementProps, v) == [S |-> v.S, rec |-> elementProps]

\* validateElementProperties without 'elementProps.validationResult = result'
validateElementPropertiesDetached(S, elementProps) ==
  IF elementProps.schema = "" THEN [S |-> S, rec |-> elementProps]
  ELSE KeepResult(elementProps,
                  validateElement(S, getElementSchema(elementProps.schema), elementProps.properties,
                                  ContextOf(S, elementProps)))
\* validateElementProperties: the store and the record after the call
validateElementProperties(S, elementProps) ==
  IF elementProps.schema = "" THEN [S |-> S, rec |-> elementProps]
  ELSE AttachResult(elementProps,
                    validateElement(S, getElementSchema(elementProps.schema), elementProps.properties,
                                    ContextOf(S, elementProps)))

getDefaultValueForPropertyType(propertyType) ==
  CASE propertyType = "boolean" -> Bool(FALSE)
    [] propertyType = "number" -> Num(0)
    [] propertyType = "multiSelect" -> Arr(<<>>)
    [] propertyType = "json" -> Obj(0)
    [] OTHER -> Str("")
getDefaultValueForType(propDef) == getDefaultValueForPropertyType(propDef.type)

\* parseFloat on the texts of integers: leading blanks, a sign, digits; -1 in
\* ok for NaN
DigitValue(c) == CHOOSE d \in 0..9 : DigitText(d) = c
RECURSIVE SkipBlanks(_)
SkipBlanks(s) == IF s # "" /\ CharAt(s, 1) = " " THEN SkipBlanks(SubSeq(s, 2, Len(s))) ELSE s
RECURSIVE DigitsPrefix(_, _, _)
DigitsPrefix(s, i, acc) ==
  IF i <= Len(s) /\ CharAt(s, i) \in Digits THEN DigitsPrefix(s, i + 1, 10 * acc + DigitValue(CharAt(s, i)))
  ELSE [value |-> acc, next |-> i]
IsNegative(s) == s # "" /\ CharAt(s, 1) = "-"
FirstDigit(s) == IF s # "" /\ CharAt(s, 1) \in {"-", "+"} THEN 2 ELSE 1
ParsedNumber(s, d) ==
  [isNaN |-> d.next = FirstDigit(s), value |-> IF IsNegative(s) THEN 0 - d.value ELSE d.value]
ParseTrimmed(s) == ParsedNumber(s, DigitsPrefix(s, FirstDigit(s), 0))
parseFloat(text) == ParseTrimmed(SkipBlanks(text))

\* value.split(',').map(v => v.trim()).filter(v => v)
RECURSIVE Split(_, _, _)
Split(s, i, current) ==
  IF i > Len(s) THEN << current >>
  ELSE IF CharAt(s, i) = "," THEN << current >> \o Split(s, i + 1, "")
  ELSE Split(s, i + 1, current \o CharAt(s, i))
RECURSIVE TrimRight(_)
TrimRight(s) == IF s # "" /\ CharAt(s, Len(s)) = " " THEN TrimRight(SubSeq(s, 1, Len(s) - 1)) ELSE s
Trim(s) == TrimRight(SkipBlanks(s))
NonEmptyText(s) == s # ""
TrimFilter(parts) == SelectSeq([i \in 1..Len(parts) |-> Trim(parts[i])], NonEmptyText)
SplitTrimFilter(s) == TrimFilter(Split(s, 1, ""))

\* isNaN(num) ? 0 : num
NumberOrZero(num) == IF num.isNaN THEN Num(0) ELSE Num(num.value)

\* JSON.parse on the texts of the empty object, the empty array, the three
\* literals and integers, blanks around them skipped; <<>> for the SyntaxError
\* of every other text
IsJsonInteger(digits) ==
  /\ digits # ""
  /\ \A i \in 1..Len(digits) : CharAt(digits, i) \in Digits
  /\ (Len(digits) = 1 \/ CharAt(digits, 1) # "0")
JsonDigits(t) == IF IsNegative(t) THEN SubSeq(t, 2, Len(t)) ELSE t
JsonValue(t) ==
  CASE t = "{}" -> << Obj(0) >>
    [] t = "[]" -> << Arr(<<>>) >>
    [] t = "true" -> << Bool(TRUE) >>
    [] t = "false" -> << Bool(FALSE) >>
    [] t = "null" -> << Null >>
    [] OTHER -> IF IsJsonInteger(JsonDigits(t)) THEN << Num(ParseTrimmed(t).value) >> ELSE <<>>
JSONParse(text) == JsonValue(Trim(text))
\* try { return JSON.parse(value) } catch { return {} }
ParsedOrObject(parsed) == IF parsed = <<>> THEN Obj(0) ELSE parsed[1]

\* parseCustomPropertyValue without the switch on the kind
parseCustomPropertyValueAsText(value, propertyType) ==
  IF value = "" THEN getDefaultValueForPropertyType(propertyType) ELSE Str(value)

\* parseCustomPropertyValue
parseCustomPropertyValue(value, propertyType) ==
  IF value = "" THEN getDefaultValueForPropertyType(propertyType)
  ELSE CASE propertyType = "boolean" -> Bool(value = "true")
         [] propertyType = "number" -> NumberOrZero(parseFloat(value))
         [] propertyType = "multiSelect" -> Arr(SplitTrimFilter(value))
         [] propertyType = "json" -> ParsedOrObject(JSONParse(value))
         [] OTHER -> Str(value)

\* An element of the diagram as the modeler hands it over: bo holds the native
\* attributes of element.businessObject, ext the {name, value} pairs of its
\* custom:Properties extension block.
Element(id, type, bo, ext) == [id |-> id, type |-> type, bo |-> bo, ext |-> ext]

\* getCustomPropertyFromBpmn: the text, "" for null (property?.value || null)
getCustomPropertyFromBpmn(element, propertyName) ==
  IF Has(element.ext, propertyName) THEN element.ext[propertyName] ELSE ""

\* the same with the extension block read before the existing record
ResolveExtensionFirst(existingProperties, element, propDef) ==
  IF getCustomPropertyFromBpmn(element, propDef.name) # ""
  THEN parseCustomPropertyValue(getCustomPropertyFromBpmn(element, propDef.name), propDef.type)
  ELSE IF Get(existingProperties, propDef.name) # Undefined THEN Get(existingProperties, propDef.name)
  ELSE IF Get(element.bo, propDef.name) # Undefined THEN Get(element.bo, propDef.name)
  ELSE IF propDef.defaultValue # Undefined THEN propDef.defaultValue
  ELSE getDefaultValueForType(propDef)
\* the value initializeElementProperties gives one property
ResolveProperty(existingProperties, element, propDef) ==
  IF Get(existingProperties, propDef.name) # Undefined THEN Get(existingProperties, propDef.name)
  ELSE IF getCustomPropertyFromBpmn(element, propDef.name) # ""
       THEN parseCustomPropertyValue(getCustomPropertyFromBpmn(element, propDef.name), propDef.type)
  ELSE IF Get(element.bo, propDef.name) # Undefined THEN Get(element.bo, propDef.name)
  ELSE IF propDef.defaultValue # Undefined THEN propDef.defaultValue
  ELSE getDefaultValueForType(propDef)

\* schema.properties.forEach(...)
RECURSIVE ResolveAll(_, _, _, _)
ResolveAll(defs, existingProperties, element, properties) ==
  IF defs = <<>> THEN properties
  ELSE ResolveAll(Tail(defs), existingProperties, element,
                  Put(properties, Head(defs).name, ResolveProperty(existingProperties, element, Head(defs))))

\* "Set element ID and name from BPMN element"
NativeAttribute(element, properties, name) ==
  IF Truthy(Get(element.bo, name)) THEN Put(properties, name, element.bo[name]) ELSE properties
NativeIdAndName(element, properties) ==
  NativeAttribute(element, NativeAttribute(element, properties, "id"), "name")

\* the same with 'properties = {...existingProperties}' to start from
InitialPropertiesKeeping(schema, existingProperties, element) ==
  NativeIdAndName(element, ResolveAll(schema.properties, existingProperties, element, existingProperties))
\* the properties of the record initializeElementProperties creates
InitialProperties(schema, existingProperties, element) ==
  NativeIdAndName(element, ResolveAll(schema.properties, existingProperties, element, EmptyMap))

\* an EnhancedElementProperties; schema is the element type of the schema, ""
\* for undefined; lastModified and isReadonly, which the engine never reads,
\* are left out
Record(elementId, elementType, properties, schema) ==
  [elementId |-> elementId, elementType |-> elementType, properties |-> properties, schema |-> schema,
   validationResult |-> <<>>]

\* currentProperties.set(elementId, record); propertiesSubject.next(currentProperties)
\* with a record object that was created by the call
StoreNewRecord(S, elementId, rec) ==
  NotifyProperties([S EXCEPT !.props = Put(@, elementId, rec),
                             !.gen = Put(@, elementId, Gen(S, elementId) + 1)])
\* the same with the record object that is in the map already
StoreSameRecord(S, elementId, rec) == NotifyProperties([S EXCEPT !.props = Put(@, elementId, rec)])

\* the validated record goes into the map
StoreValidated(elementId, v) == StoreNewRecord(v.S, elementId, v.rec)
StoreValidatedInPlace(elementId, v) == StoreSameRecord(v.S, elementId, v.rec)

\* existingProperties that are never found
existingPropertiesForgotten(S, elementId) == EmptyMap
\* currentProperties.get(elementId)?.properties || {}
existingProperties(S, elementId) == IF Has(S.props, elementId) THEN S.props[elementId].properties ELSE EmptyMap
\* the record initializeElementProperties builds for a schema
NewRecord(S, elementId, element, schema) ==
  Record(elementId, element.type, InitialProperties(schema, existingProperties(S, elementId), element),
         schema.elementType)

\* initializeElementProperties without the return on a missing schema
initializeElementPropertiesUnguarded(S, elementId, element) ==
  IF ~HasSchema(element.type)
  THEN StoreNewRecord(S, elementId, Record(elementId, element.type, EmptyMap, ""))
  ELSE StoreValidated(elementId,
         validateElementProperties(S, NewRecord(S, elementId, element, getElementSchema(element.type))))

\* initializeElementProperties (select)
initializeElementProperties(S, elementId, element) ==
  IF ~HasSchema(element.type) THEN S
  ELSE StoreValidated(elementId,
         validateElementProperties(S, NewRecord(S, elementId, element, getElementSchema(element.type))))

\* setSelectedElement; element is <<>> when the argument is omitted
setSelectedElement(S, elementId, element) ==
  IF elementId # NoSelection /\ element # <<>>
  THEN initializeElementProperties(NotifySelected(S, elementId), elementId, element[1])
  ELSE NotifySelected(S, elementId)

\* the record is changed in place, it is in the map while it is validated
ValidateInPlace(S, elementId) ==
  StoreValidatedInPlace(elementId, validateElementProperties(S, S.props[elementId]))
UpdateInPlace(S, elementId, properties) ==
  ValidateInPlace([S EXCEPT !.props[elementId].properties = properties], elementId)

\* setProperty with 'elementProps.properties = {[propertyName]: value}'
setPropertyReplacing(S, elementId, propertyName, value) ==
  IF ~Has(S.props, elementId) THEN S
  ELSE UpdateInPlace(S, elementId, Put(EmptyMap, propertyName, value))
\* setProperty
setProperty(S, elementId, propertyName, value) ==
  IF ~Has(S.props, elementId) THEN S
  ELSE UpdateInPlace(S, elementId, Put(S.props[elementId].properties, propertyName, value))

\* setProperties without the early return
setPropertiesNotifying(S, elementId, properties) ==
  IF ~Has(S.props, elementId) THEN NotifyProperties(S)
  ELSE UpdateInPlace(S, elementId, Assign(S.props[elementId].properties, properties))
\* setProperties as one setProperty for each key
RECURSIVE setPropertiesEachKey(_, _, _, _)
setPropertiesEachKey(S, elementId, properties, keys) ==
  IF keys = {} THEN S
  ELSE LET key == CHOOSE k \in keys : TRUE
       IN setPropertiesEachKey(setProperty(S, elementId, key, properties[key]), elementId, properties,
                               keys \ {key})
setPropertiesEach(S, elementId, properties) ==
  setPropertiesEachKey(S, elementId, properties, DOMAIN properties)
\* setProperties
setProperties(S, elementId, properties) ==
  IF ~Has(S.props, elementId) THEN S
  ELSE UpdateInPlace(S, elementId, Assign(S.props[elementId].properties, properties))

\* getElementProperties: <<>> for undefined
getElementProperties(S, elementId) == IF Has(S.props, elementId) THEN << S.props[elementId] >> ELSE <<>>

\* String.prototype.toUpperCase on one character
LowerCase == "abcdefghijklmnopqrstuvwxyz"
UpperCase == "ABCDEFGHIJKLMNOPQRSTUVWXYZ"
toUpperCase(c) ==
  IF \E i \in 1..26 : CharAt(LowerCase, i) = c
  THEN CharAt(UpperCase, CHOOSE i \in 1..26 : CharAt(LowerCase, i) = c) ELSE c
\* groupId.charAt(0).toUpperCase() + groupId.slice(1)
Capitalize(groupId) ==
  IF groupId = "" THEN "" ELSE toUpperCase(CharAt(groupId, 1)) \o SubSeq(groupId, 2, Len(groupId))

\* Array.prototype.sort((a, b) => a.order - b.order): stable, ascending.  The
\* order of a property definition that declares none is 0 (a.order || 0).
InsertAfter(x, sorted, k) == SubSeq(sorted, 1, k) \o << x >> \o SubSeq(sorted, k + 1, Len(sorted))
\* the comparison reversed: descending
InsertByOrderDescending(x, sorted) ==
  InsertAfter(x, sorted, Cardinality({i \in 1..Len(sorted) : sorted[i].order >= x.order}))
InsertByOrder(x, sorted) ==
  InsertAfter(x, sorted, Cardinality({i \in 1..Len(sorted) : sorted[i].order <= x.order}))
RECURSIVE SortByOrder(_)
SortByOrder(s) ==
  IF s = <<>> THEN <<>> ELSE InsertByOrder(s[Len(s)], SortByOrder(SubSeq(s, 1, Len(s) - 1)))

\* getPropertyGroups
\* prop.group || 'general'
GroupIdOf(prop) == IF prop.group # "" THEN prop.group ELSE "general"
\* PropertyGroups[groupId] || { label, order: 999 }
GroupInfo(groupId) ==
  IF groupId \in DOMAIN PropertyGroups THEN PropertyGroups[groupId]
  ELSE [label |-> Capitalize(groupId), order |-> 999]
\* the keys of groupedProps in insertion order: the positions of the first
\* property of each group
IsFirstOfGroup(properties, i) ==
  \A j \in 1..(i - 1) : GroupIdOf(properties[j]) # GroupIdOf(properties[i])
FirstOfGroups(properties) ==
  SelectSeq([i \in 1..Len(properties) |-> i], LAMBDA i : IsFirstOfGroup(properties, i))
InGroup(properties, groupId) == SelectSeq(properties, LAMBDA prop : GroupIdOf(prop) = groupId)
PropertyGroup(groupId, groupInfo, properties) ==
  [id |-> groupId, label |-> groupInfo.label, order |-> groupInfo.order,
   properties |-> SortByOrder(properties), isExpanded |-> TRUE]
GroupOf(properties, groupId) == PropertyGroup(groupId, GroupInfo(groupId), InGroup(properties, groupId))
GroupsOf(properties, firsts) ==
  [k \in 1..Len(firsts) |-> GroupOf(properties, GroupIdOf(properties[firsts[k]]))]
ProjectGroups(schema) == SortByOrder(GroupsOf(schema.properties, FirstOfGroups(schema.properties)))
getPropertyGroups(S, elementId) ==
  IF ~Has(S.props, elementId) THEN <<>>
  ELSE IF S.props[elementId].schema = "" THEN <<>>
  ELSE ProjectGroups(getElementSchema(S.props[elementId].schema))

\* exportElementProperties: the data importElementProperties accepts
ImportData(elementId, elementType, properties) ==
  [elementId |-> elementId, elementType |-> elementType, properties |-> properties]
exportElementProperties(S, elementId) ==
  IF ~Has(S.props, elementId) THEN <<>>
  ELSE << ImportData(elementId, S.props[elementId].elementType, << S.props[elementId].properties >>) >>

\* importElementProperties; data.properties is <<>> when absent
importElementProperties(S, data) ==
  IF data.elementId = "" \/ data.elementType = "" \/ data.properties = <<>> THEN S
  ELSE StoreValidated(data.elementId,
         validateElementProperties(S, Record(data.elementId, data.elementType, data.properties[1],
                                             IF HasSchema(data.elementType) THEN data.elementType ELSE "")))

\* ValidationService.clearValidationResults
clearValidationResults(S, elementId) ==
  Observe(Observe([S EXCEPT !.vres = Del(@, elementId), !.bres = Del(@, elementId)],
                  "validationResults$"), "businessRuleResults$")

\* removeElementProperties with a return when the element has no record
removeElementPropertiesGuarded(S, elementId) ==
  IF ~Has(S.props, elementId) THEN S
  ELSE clearValidationResults(NotifyProperties([S EXCEPT !.props = Del(@, elementId)]), elementId)

\* removeElementProperties
removeElementProperties(S, elementId) ==
  clearValidationResults(NotifyProperties([S EXCEPT !.props = Del(@, elementId)]), elementId)

\* clearAllProperties
clearAllProperties(S) ==
  NotifySelected(NotifyProperties([S EXCEPT !.props = EmptyMap, !.map = @ + 1]), NoSelection)

\* ValidationService.executeBusinessRules
StoreRuleResults(S, elementId, results) ==
  [S |-> Observe([S EXCEPT !.bres = Put(@, elementId, results)], "businessRuleResults$"),
   results |-> results]
executeBusinessRules(S, rules, elementData, context) ==
  StoreRuleResults(S, context.elementId, RuleResults(rules, elementData, context))

\* results.forEach(...) of applyBusinessRules
RECURSIVE HandleRuleResults(_, _, _)
HandleRuleResults(S, elementId, results) ==
  IF results = <<>> THEN S
  ELSE HandleRuleResults(
         IF Head(results).action = "default" /\ Head(results).target # ""
         THEN setProperty(S, elementId, Head(results).target, Head(results).value) ELSE S,
         elementId, Tail(results))

ApplyResults(elementId, r) == HandleRuleResults(r.S, elementId, r.results)

\* applyBusinessRules whose writes start another evaluation of the rules
applyRulesAgainAfterWrites(S, elementId, businessRules) ==
  executeBusinessRules(
    ApplyResults(elementId,
      executeBusinessRules(S, businessRules, S.props[elementId].properties,
                           ValidationContext(elementId, S.props[elementId].elementType,
                                             Cardinality(DOMAIN S.props)))),
    businessRules,
    ApplyResults(elementId,
      executeBusinessRules(S, businessRules, S.props[elementId].properties,
                           ValidationContext(elementId, S.props[elementId].elementType,
                                             Cardinality(DOMAIN S.props)))).props[elementId].properties,
    ValidationContext(elementId, S.props[elementId].elementType, Cardinality(DOMAIN S.props))).S
\* applyBusinessRules past its guard: the rules of the schema are executed and
\* the results handled
applyRules(S, elementId, businessRules) ==
  ApplyResults(elementId,
    executeBusinessRules(S, businessRules, S.props[elementId].properties,
                         ValidationContext(elementId, S.props[elementId].elementType,
                                           Cardinality(DOMAIN S.props))))

\* applyBusinessRules
applyBusinessRules(S, elementId) ==
  IF ~Has(S.props, elementId) THEN S
  ELSE IF S.props[elementId].schema = "" THEN S
  ELSE IF ~getElementSchema(S.props[elementId].schema).hasBusinessRules THEN S
  ELSE applyRules(S, elementId, getElementSchema(S.props[elementId].schema).businessRules)

\* ValidationService.getValidationResults / getBusinessRuleResults
getValidationResults(S, elementId) == IF Has(S.vres, elementId) THEN << S.vres[elementId] >> ELSE <<>>
getBusinessRuleResults(S, elementId) == IF Has(S.bres, elementId) THEN S.bres[elementId] ELSE <<>>

\* ValidationService.getValidationSummary, of the map of validation results
RECURSIVE Total(_, _)
Total(counts, ids) ==
  IF ids = {} THEN 0
  ELSE LET e == CHOOSE x \in ids : TRUE IN counts[e] + Total(counts, ids \ {e})
getValidationSummary(results) ==
  [totalElements |-> Cardinality(DOMAIN results),
   validElements |-> Cardinality({e \in DOMAIN results : results[e].isValid}),
   invalidElements |-> Cardinality({e \in DOMAIN results : ~results[e].isValid}),
   totalErrors |-> Total([e \in DOMAIN results |-> Len(results[e].errors)], DOMAIN results),
   totalWarnings |-> Total([e \in DOMAIN results |-> Len(results[e].warnings)], DOMAIN results)]


(***************************************************************************)
(* DiagramStateService (diagram-state.service.ts).                         *)
(***************************************************************************)
\* DiagramState; selectedElement is the id of the element, "" for null, and
\* currentXML the document the text describes
DiagramState(isLoaded, isDirty, currentXML, selectedElement, diagramName) ==
  [isLoaded |-> isLoaded, isDirty |-> isDirty, currentXML |-> currentXML,
   selectedElement |-> selectedElement, diagramName |-> diagramName]
\* diagramName || 'Untitled Diagram'
setDiagramLoaded(state, xml, diagramName) ==
  [state EXCEPT !.isLoaded = TRUE, !.isDirty = FALSE, !.currentXML = xml,
                !.diagramName = IF diagramName # "" THEN diagramName ELSE "Untitled Diagram"]
setDiagramModified(state) == [state EXCEPT !.isDirty = TRUE]
resetDiagram(state) == [state EXCEPT !.isDirty = FALSE, !.selectedElement = ""]
setStateSelectedElement(state, elementId) == [state EXCEPT !.selectedElement = elementId]
\* setDiagramExported that leaves the state as it is
setDiagramExportedKeepingDirty(state) == state
setDiagramExported(state) == [state EXCEPT !.isDirty = FALSE]
setDiagramName(state, name) == [state EXCEPT !.diagramName = name]
hasUnsavedChanges(state) == state.isDirty
\* initialState, which clearState publishes
initialState == DiagramState(FALSE, FALSE, {}, "", "Untitled Diagram")
clearState(state) == initialState

(***************************************************************************)
(* State.                                                                  *)
(***************************************************************************)
VARIABLES
  propertiesMap,         \* CustomPropertiesService.propertiesSubject.value
  selectedElementId,     \* CustomPropertiesService.selectedElementId
  validationResults,     \* ValidationService.validationResults.value
  businessRuleResults,   \* ValidationService.businessRuleResults.value
  selectedStream,        \* the object getSelectedElementProperties emitted last:
                         \* the id it was stored under, live when it still is
  diagramState,          \* DiagramStateService.stateSubject.value
  diagram,               \* the ids of the elements of the modeler's document
  importPending,         \* <<import>> while modeler.importXML is running: the document
                         \* of the text and whether the modeler accepts it
  businessObjects,       \* the attributes modeling.updateProperties has written to the
                         \* business objects of the modeler's elements, by element
  call                   \* the last call, its arguments and what it made observable

vars == << propertiesMap, selectedElementId, validationResults, businessRuleResults,
           selectedStream, diagramState, diagram, importPending, businessObjects, call >>

\* the store as a call finds it, nothing observed yet
Store ==
  [props |-> propertiesMap, selected |-> selectedElementId, vres |-> validationResults,
   bres |-> businessRuleResults, gen |-> EmptyMap, map |-> 0,
   selLast |-> IF selectedStream.id = "" THEN NoObject
               ELSE Object(selectedStream.id, IF selectedStream.live THEN 0 ELSE -1),
   notifications |-> 0, validations |-> 0, emitted |-> <<>>, observed |-> <<>>]

\* the arguments of a call: a property name and value, the element handed over
\* (<<>> for none), a map of values
Args(name, value, element, batch) == [name |-> name, value |-> value, element |-> element, batch |-> batch]
NoArgs == Args("", Undefined, <<>>, EmptyMap)

\* what a subscriber could read of the record of elementId at one emission
ObservedValues(o, elementId) == IF Has(o.values, elementId) THEN << o.values[elementId] >> ELSE <<>>

\* the maps a subscriber of properties$ received during the call, in order
IsPropertiesEmission(o) == o.stream = "properties$"
Published(S) ==
  [i \in 1..Len(SelectSeq(S.observed, IsPropertiesEmission)) |->
     SelectSeq(S.observed, IsPropertiesEmission)[i].values]

\* the call and what it made observable: the emissions of properties$, the runs
\* of the validation, the emissions of getSelectedElementProperties and the
\* values of the record of elementId a subscriber of any stream could read
Call(op, elementId, args, S) ==
  [op |-> op, elementId |-> elementId, name |-> args.name, value |-> args.value,
   element |-> args.element, batch |-> args.batch,
   notifications |-> S.notifications, validations |-> S.validations, emissions |-> Len(S.emitted),
   published |-> Published(S), map |-> S.map,
   observed |-> {ObservedValues(S.observed[i], elementId) : i \in 1..Len(S.observed)}]

Commit(S) ==
  /\ propertiesMap' = S.props
  /\ selectedElementId' = S.selected
  /\ validationResults' = S.vres
  /\ businessRuleResults' = S.bres
  /\ selectedStream' = [id |-> S.selLast.id,
                        live |-> /\ S.selLast.id # ""
                                 /\ Has(S.props, S.selLast.id)
                                 /\ S.selLast.gen = Gen(S, S.selLast.id)]

(***************************************************************************)
(* The elements and the inputs of the calls.                               *)
(***************************************************************************)
\* element.type by id; bpmn:ComplexGateway has no registered schema
ElementTypes ==
  [StartEvent_1 |-> "bpmn:StartEvent", UserTask_1 |-> "bpmn:UserTask", ServiceTask_1 |-> "bpmn:ServiceTask",
   ExclusiveGateway_1 |-> "bpmn:ExclusiveGateway", EndEvent_Success |-> "bpmn:EndEvent",
   EndEvent_Failed |-> "bpmn:EndEvent", Flow_1 |-> "bpmn:SequenceFlow", Flow_2 |-> "bpmn:SequenceFlow",
   Flow_3 |-> "bpmn:SequenceFlow", Flow_4 |-> "bpmn:SequenceFlow", Flow_5 |-> "bpmn:SequenceFlow",
   Activity_1 |-> "bpmn:UserTask", ScriptTask_1 |-> "bpmn:ScriptTask",
   ParallelGateway_1 |-> "bpmn:ParallelGateway", Gateway_1 |-> "bpmn:ComplexGateway",
   Task_1 |-> "bpmn:UserTask"]
ElementType(id) == ElementTypes[id]

\* the document getDefaultXML describes: the ids of its flow elements
DefaultDocument ==
  {"StartEvent_1", "Flow_1", "UserTask_1", "Flow_2", "ServiceTask_1", "Flow_3", "ExclusiveGateway_1",
   "Flow_4", "Flow_5", "EndEvent_Success", "EndEvent_Failed"}

\* a bpmn2:documentation child as the business object holds it
Documentation == Arr(<< "[object Object]" >>)

\* the attributes of the business objects of the default document that a
\* schema names; an element the user creates has its id only
NativeAttributes(id) ==
  CASE id = "StartEvent_1" -> [id |-> Str(id), name |-> Str("Process Started")]
    [] id = "UserTask_1" -> [id |-> Str(id), name |-> Str("Review Application"), documentation |-> Documentation]
    [] id = "ServiceTask_1" -> [id |-> Str(id), name |-> Str("Process Payment"), documentation |-> Documentation]
    [] id = "ExclusiveGateway_1" -> [id |-> Str(id), name |-> Str("Payment Success?")]
    [] id = "Flow_4" -> [id |-> Str(id), name |-> Str("Success")]
    [] id = "Flow_5" -> [id |-> Str(id), name |-> Str("Failed")]
    [] id = "EndEvent_Success" -> [id |-> Str(id), name |-> Str("Process Completed")]
    [] id = "EndEvent_Failed" -> [id |-> Str(id), name |-> Str("Process Failed")]
    [] OTHER -> [id |-> Str(id)]

\* the element as the modeler hands it over before any edit
PlainElement(id) == Element(id, ElementType(id), NativeAttributes(id), EmptyMap)

\* the state after the modeler has loaded a document
Loaded(document, diagramName) ==
  /\ propertiesMap = EmptyMap
  /\ selectedElementId = NoSelection
  /\ validationResults = EmptyMap
  /\ businessRuleResults = EmptyMap
  /\ selectedStream = [id |-> "", live |-> FALSE]
  /\ diagramState = setDiagramLoaded(DiagramState(FALSE, FALSE, {}, "", "Untitled Diagram"),
                                     document, diagramName)
  /\ diagram = document
  /\ importPending = <<>>
  /\ businessObjects = EmptyMap
  /\ call = Call("init", "", NoArgs, Store)

\* DiagramComponent.initializeBpmnModeler has loaded the default diagram
Init == Loaded(DefaultDocument, "Default Diagram")

(***************************************************************************)
(* Spec: the calls of the property store.                                  *)
(***************************************************************************)
\* the ids the store is called with
StoreIds == {"UserTask_1", "ServiceTask_1"}
SelectIds == StoreIds \cup {"Gateway_1"}

Edit(elementId, name, value) == [elementId |-> elementId, name |-> name, value |-> value]
Edits ==
  { Edit("UserTask_1", "assignee", Str("bob")), Edit("UserTask_1", "assignee", Str("")) }

Batch(elementId, map) == [elementId |-> elementId, map |-> map]
Batches ==
  { Batch("UserTask_1", [assignee |-> Str("bob"), note |-> Str("x")]),
    Batch("UserTask_1", EmptyMap),
    Batch("ServiceTask_1", [name |-> Str("x")]) }

Imports ==
  { ImportData("ServiceTask_1", "bpmn:ServiceTask", << [name |-> Str("x")] >>),
    ImportData("ServiceTask_1", "bpmn:ComplexGateway", << EmptyMap >>),
    ImportData("", "bpmn:UserTask", << EmptyMap >>),
    ImportData("UserTask_1", "bpmn:UserTask", <<>>) }
  \cup UNION { {d[1] : d \in {exportElementProperties(Store, e)} \ {<<>>}} : e \in StoreIds }

Run(op, elementId, args, S) ==
  /\ Commit(S)
  /\ call' = Call(op, elementId, args, S)
  /\ UNCHANGED << diagramState, diagram, importPending, businessObjects >>

SetSelectedElement ==
  \/ \E id \in SelectIds :
       Run("setSelectedElement", id, Args("", Undefined, << PlainElement(id) >>, EmptyMap),
           setSelectedElement(Store, id, << PlainElement(id) >>))
  \/ Run("setSelectedElement", NoSelection, NoArgs, setSelectedElement(Store, NoSelection, <<>>))

InitializeElementProperties ==
  \E id \in SelectIds :
    Run("initializeElementProperties", id, Args("", Undefined, << PlainElement(id) >>, EmptyMap),
        initializeElementProperties(Store, id, PlainElement(id)))

SetProperty ==
  \E edit \in Edits :
    Run("setProperty", edit.elementId, Args(edit.name, edit.value, <<>>, EmptyMap),
        setProperty(Store, edit.elementId, edit.name, edit.value))

SetProperties ==
  \E batch \in Batches :
    Run("setProperties", batch.elementId, Args("", Undefined, <<>>, batch.map),
        setProperties(Store, batch.elementId, batch.map))

ImportElementProperties ==
  \E data \in Imports : \E imported \in {importElementProperties(Store, data)} :
    /\ Commit(imported)
    /\ call' = Call("importElementProperties", data.elementId, NoArgs, imported) @@ [data |-> data]
    /\ UNCHANGED << diagramState, diagram, importPending, businessObjects >>

RemoveElementProperties ==
  \E id \in StoreIds :
    Run("removeElementProperties", id, NoArgs, removeElementProperties(Store, id))

ClearAllProperties ==
  Run("clearAllProperties", "", NoArgs, clearAllProperties(Store))

ApplyBusinessRules ==
  \E id \in StoreIds :
    Run("applyBusinessRules", id, NoArgs, applyBusinessRules(Store, id))

\* properties$.subscribe(...): the BehaviorSubject hands its value to the new
\* subscriber
Subscribe ==
  Run("subscribe", "", NoArgs, Observe(Store, "properties$"))

Next ==
  \/ SetSelectedElement
  \/ InitializeElementProperties
  \/ SetProperty
  \/ SetProperties
  \/ ImportElementProperties
  \/ RemoveElementProperties
  \/ ClearAllProperties
  \/ ApplyBusinessRules
  \/ Subscribe

Spec == Init /\ [][Next]_vars

(***************************************************************************)
(* Properties of the store (Spec).                                         *)
(***************************************************************************)
SchemaNames(elementType) ==
  {getElementSchema(elementType).properties[i].id : i \in 1..Len(getElementSchema(elementType).properties)}

\* C1: in every reachable state every record of a type with a schema holds a
\* value for every property definition of that schema: no partial records.
NoPartialRecords ==
  \A id \in DOMAIN propertiesMap :
    HasSchema(propertiesMap[id].elementType) =>
      \A name \in SchemaNames(propertiesMap[id].elementType) : Has(propertiesMap[id].properties, name)

\* C4: a setProperty on an element with a record makes properties[propertyId]
\* the value and changes nothing else: the other values of the record, its
\* elementId, elementType and schema, the set of records and every other record
\* are as before.
SetPropertyChangesOnlyThatKey ==
  [][ (call'.op = "setProperty" /\ Has(propertiesMap, call'.elementId)) =>
        LET id == call'.elementId
            before == propertiesMap[id]
            after == propertiesMap'[id]
        IN /\ DOMAIN propertiesMap' = DOMAIN propertiesMap
           /\ Has(after.properties, call'.name)
           /\ after.properties[call'.name] = call'.value
           /\ DOMAIN after.properties = DOMAIN before.properties \cup {call'.name}
           /\ \A key \in DOMAIN before.properties \ {call'.name} :
                after.properties[key] = before.properties[key]
           /\ after.elementId = before.elementId
           /\ after.elementType = before.elementType
           /\ after.schema = before.schema
           /\ \A other \in DOMAIN propertiesMap \ {id} : propertiesMap'[other] = propertiesMap[other]
    ]_vars

\* C4, reached: setProperty has written a value to one of two records
SetPropertyWroteOneOfTwoRecords ==
  /\ call.op = "setProperty"
  /\ Has(propertiesMap, call.elementId)
  /\ Cardinality(DOMAIN propertiesMap) = 2
  /\ call.value = Str("bob")
  /\ propertiesMap[call.elementId].properties[call.name] = call.value

Validated(rec) ==
  performElementValidation(getElementSchema(rec.schema), rec.properties,
                           ValidationContext(rec.elementId, rec.elementType, Cardinality(DOMAIN propertiesMap)))

\* C6: the validation result stored on every record with a schema is the
\* validation of the values the record holds now, and it is the result
\* getValidationResults returns for the element.
ValidationResultNeverStale ==
  \A id \in DOMAIN propertiesMap :
    propertiesMap[id].schema # "" =>
      /\ propertiesMap[id].validationResult = << Validated(propertiesMap[id]) >>
      /\ getValidationResults(Store, id) = propertiesMap[id].validationResult

\* C6, reached: a write has turned the invalid record of UserTask_1 into a valid
\* one while ServiceTask_1 has a record too
ValidationFollowedAWrite ==
  /\ call.op = "setProperty"
  /\ call.elementId = "UserTask_1"
  /\ Has(propertiesMap, "UserTask_1")
  /\ Has(propertiesMap, "ServiceTask_1")
  /\ propertiesMap["UserTask_1"].properties["assignee"] = Str("bob")
  /\ propertiesMap["UserTask_1"].validationResult # <<>>
  /\ propertiesMap["UserTask_1"].validationResult[1].isValid

\* C7: a setProperty or setProperties on the selected element, which has a
\* record, makes getSelectedElementProperties emit the record.
SelectedWriteIsPublished ==
  [][ (/\ call'.op \in {"setProperty", "setProperties"}
       /\ Has(propertiesMap, call'.elementId)
       /\ selectedElementId = call'.elementId) => call'.emissions >= 1
    ]_vars

\* C8 as stated: setProperties on a record applies every key of the map, runs
\* the validation exactly once and emits properties$ exactly once, and no
\* emission shows the record with only some of the keys applied.
SetPropertiesValidatesExactlyOnce ==
  [][ (call'.op = "setProperties" /\ Has(propertiesMap, call'.elementId)) =>
        /\ \A key \in DOMAIN call'.batch :
             Get(propertiesMap'[call'.elementId].properties, key) = call'.batch[key]
        /\ call'.validations = 1
        /\ call'.notifications = 1
        /\ call'.observed \subseteq { << propertiesMap'[call'.elementId].properties >> }
    ]_vars

\* C8, amended: setProperties on a record applies every key of the map, runs
\* the validation once when the record has a schema and not at all when it has
\* none, emits properties$ exactly once, and every emission shows the record
\* with all the keys applied.
SetPropertiesIsOneWrite ==
  [][ (call'.op = "setProperties" /\ Has(propertiesMap, call'.elementId)) =>
        /\ \A key \in DOMAIN call'.batch :
             Get(propertiesMap'[call'.elementId].properties, key) = call'.batch[key]
        /\ call'.validations = (IF propertiesMap[call'.elementId].schema # "" THEN 1 ELSE 0)
        /\ call'.notifications = 1
        /\ call'.observed \subseteq { << propertiesMap'[call'.elementId].properties >> }
    ]_vars

\* C8, reached: setProperties has written two keys to a record with a schema
\* with one notification and one validation
SetPropertiesWroteTwoKeys ==
  /\ call.op = "setProperties"
  /\ Cardinality(DOMAIN call.batch) = 2
  /\ Has(propertiesMap, call.elementId)
  /\ propertiesMap[call.elementId].schema # ""
  /\ \A key \in DOMAIN call.batch : propertiesMap[call.elementId].properties[key] = call.batch[key]
  /\ call.notifications = 1
  /\ call.validations = 1
  /\ call.observed = { << propertiesMap[call.elementId].properties >> }

\* the results of the business rules of the schema on the values a record holds
RulesEvaluated(rec) ==
  IF rec.schema = "" THEN <<>>
  ELSE RuleResults(getElementSchema(rec.schema).businessRules, rec.properties,
                   ValidationContext(rec.elementId, rec.elementType, Cardinality(DOMAIN propertiesMap)))

\* C10: after a setProperty on a record and after a select, the results
\* getBusinessRuleResults returns for the element are the results of the
\* business rules of its schema on the values the record holds now.
RuleResultsFollowWrites ==
  (/\ call.op \in {"setProperty", "setSelectedElement", "initializeElementProperties"}
   /\ Has(propertiesMap, call.elementId))
  => getBusinessRuleResults(Store, call.elementId) = RulesEvaluated(propertiesMap[call.elementId])

\* the evaluation of the condition raises an exception
Raises(rule, elementData, context) == EvalNode(rule.condition, EvalContext(elementData, context)).k = "error"

\* C16: after applyBusinessRules on a record whose schema has business rules,
\* the stored result of every rule whose condition raised an exception is a
\* failed one: passed is false and the message is the diagnostic of the
\* exception, not the message of the rule.
ThrowingRuleIsReportedFailed ==
  (/\ call.op = "applyBusinessRules"
   /\ Has(propertiesMap, call.elementId)
   /\ propertiesMap[call.elementId].schema # ""
   /\ getElementSchema(propertiesMap[call.elementId].schema).hasBusinessRules) =>
    /\ Has(businessRuleResults, call.elementId)
    /\ \A i \in 1..Len(getElementSchema(propertiesMap[call.elementId].schema).businessRules) :
         Raises(getElementSchema(propertiesMap[call.elementId].schema).businessRules[i],
                propertiesMap[call.elementId].properties,
                ValidationContext(call.elementId, propertiesMap[call.elementId].elementType,
                                  Cardinality(DOMAIN propertiesMap)))
         => /\ ~businessRuleResults[call.elementId][i].passed
            /\ businessRuleResults[call.elementId][i].message
                 # getElementSchema(propertiesMap[call.elementId].schema).businessRules[i].message


LiveRecords(map) == [e \in DOMAIN map |-> map[e].properties]
\* the data passes the guard of importElementProperties
ValidImport(data) == data.elementId # "" /\ data.elementType # "" /\ data.properties # <<>>
\* what the call came to: accepted, rejected, or not one of the listed calls
Accepted(c, map) ==
  CASE c.op \in {"setSelectedElement", "initializeElementProperties"} ->
         c.elementId # NoSelection /\ c.element # <<>> /\ HasSchema(c.element[1].type)
    [] c.op \in {"setProperty", "setProperties"} -> Has(map, c.elementId)
    [] c.op = "importElementProperties" -> ValidImport(c.data)
    [] c.op \in {"removeElementProperties", "clearAllProperties", "subscribe"} -> TRUE
    [] OTHER -> FALSE
Rejected(c, map) ==
  CASE c.op \in {"setSelectedElement", "initializeElementProperties"} ->
         c.element # <<>> /\ ~HasSchema(c.element[1].type)
    [] c.op \in {"setProperty", "setProperties"} -> ~Has(map, c.elementId)
    [] c.op = "importElementProperties" -> ~ValidImport(c.data)
    [] OTHER -> FALSE

\* C26: every select of an element with a schema, every setProperty and
\* setProperties on a record, every import of valid data, every remove and
\* every clearAllProperties emits properties$ exactly once, with the map of
\* all live records as the call leaves it; a rejected call (no record, no
\* schema, invalid import data) emits nothing; a new subscriber receives the
\* current map at once.
NotificationDiscipline ==
  [][ /\ Accepted(call', propertiesMap) => call'.published = << LiveRecords(propertiesMap') >>
      /\ ( Accepted(call', propertiesMap) /\ call'.op # "subscribe" ) => call'.notifications = 1
      /\ Rejected(call', propertiesMap) =>
           ( call'.notifications = 0 /\ call'.published = <<>> /\ propertiesMap' = propertiesMap ) ]_vars

RemoveNotifiedOnce ==
  /\ call.op = "removeElementProperties"
  /\ call.notifications = 1
  /\ call.published = << LiveRecords(propertiesMap) >>
  /\ Cardinality(DOMAIN propertiesMap) = 1

\* C32: the elements ValidationService holds a validation result or business
\* rule results for all have a live record in the store, and after
\* clearAllProperties the validation summary counts no element, no error and
\* no warning.
NoStaleValidationResults ==
  /\ (DOMAIN validationResults \cup DOMAIN businessRuleResults) \subseteq DOMAIN LiveRecords(propertiesMap)
  /\ call.op = "clearAllProperties"
       => /\ getValidationSummary(validationResults).totalElements = 0
          /\ getValidationSummary(validationResults).totalErrors = 0
          /\ getValidationSummary(validationResults).totalWarnings = 0

\* the contents after a call of the Map a subscriber of properties$ had
\* received before it: the store's map when the call published no new Map
HeldMap(c, before, after) == IF c.map = 0 THEN after ELSE before

\* C39: the map of records a subscriber of properties$ received before a call
\* of setProperty, setProperties, a select or a remove has, after the call,
\* the contents it was delivered with.
DeliveredMapIsASnapshot ==
  [][ call'.op \in {"setProperty", "setProperties", "setSelectedElement",
                    "initializeElementProperties", "removeElementProperties"}
      => HeldMap(call', LiveRecords(propertiesMap), LiveRecords(propertiesMap'))
           = LiveRecords(propertiesMap)
    ]_vars

\* the record is as a select of the element leaves it: it holds a value for
\* exactly the properties of the schema of the element, and its id and name
\* are the native attributes the element carries
Settled(rec, element) ==
  /\ HasSchema(element.type)
  /\ rec.elementType = element.type
  /\ rec.schema = element.type
  /\ DOMAIN rec.properties = SchemaNames(element.type)
  /\ \A name \in DOMAIN rec.properties : rec.properties[name] # Undefined
  /\ \A name \in {"id", "name"} \cap DOMAIN rec.properties :
       Truthy(Get(element.bo, name)) => rec.properties[name] = element.bo[name]

\* C40: a select of an element whose record is as a select of the same
\* element leaves it keeps every value of the record, its validation result
\* and the result ValidationService stores for it, and changes the record of
\* no other element.
SelectIsIdempotentOnValues ==
  [][ (/\ call'.op \in {"setSelectedElement", "initializeElementProperties"}
       /\ call'.element # <<>>
       /\ Has(propertiesMap, call'.elementId)
       /\ Settled(propertiesMap[call'.elementId], call'.element[1]))
      => /\ DOMAIN propertiesMap' = DOMAIN propertiesMap
         /\ propertiesMap'[call'.elementId].properties = propertiesMap[call'.elementId].properties
         /\ propertiesMap'[call'.elementId].validationResult
              = propertiesMap[call'.elementId].validationResult
         /\ getValidationResults(Store, call'.elementId)
              = << propertiesMap'[call'.elementId].validationResult[1] >>
         /\ validationResults' = validationResults
         /\ \A other \in DOMAIN propertiesMap \ {call'.elementId} :
              propertiesMap'[other] = propertiesMap[other]
    ]_vars

\* an element was selected again after its assignee had been set: the record
\* still holds the assignee, next to the record of another element
EditedRecordSelectedAgain ==
  /\ call.op \in {"setSelectedElement", "initializeElementProperties"}
  /\ call.elementId = "UserTask_1"
  /\ call.element # <<>>
  /\ Has(propertiesMap, "UserTask_1")
  /\ Has(propertiesMap, "ServiceTask_1")
  /\ Settled(propertiesMap["UserTask_1"], call.element[1])
  /\ propertiesMap["UserTask_1"].properties["assignee"] = Str("bob")

\* C21: the lookup of the schema of a type that is not registered finds
\* nothing; a select of an element of such a type creates no record, leaves
\* every record and every validation result as it was, emits nothing on
\* properties$, runs no validation, and getPropertyGroups of the element is
\* the empty list.
UnknownTypeSelectIsIgnored ==
  [][ ( /\ call'.op \in {"setSelectedElement", "initializeElementProperties"}
        /\ call'.element # <<>>
        /\ ~HasSchema(call'.element[1].type) )
      => /\ FindSchema(call'.element[1].type) = <<>>
         /\ propertiesMap' = propertiesMap
         /\ validationResults' = validationResults
         /\ ~Has(propertiesMap', call'.elementId)
         /\ call'.notifications = 0
         /\ call'.validations = 0
         /\ getPropertyGroups([props |-> propertiesMap'], call'.elementId) = <<>> ]_vars

UnknownTypeSelected ==
  /\ call.op = "setSelectedElement"
  /\ call.elementId = "Gateway_1"
  /\ call.element # <<>>
  /\ ~HasSchema(call.element[1].type)
  /\ selectedElementId = "Gateway_1"
  /\ Cardinality(DOMAIN propertiesMap) = 2
  /\ DOMAIN validationResults # {}
  /\ call.notifications = 0

(***************************************************************************)
(* SpecSelect: initializeElementProperties on one element of each          *)
(* registered type, with the native attributes and the extension values    *)
(* the element can carry and the values earlier calls have left.           *)
(***************************************************************************)
TypedIds ==
  {"UserTask_1", "ServiceTask_1", "ScriptTask_1", "ExclusiveGateway_1", "ParallelGateway_1", "StartEvent_1", "EndEvent_Success", "Flow_1"}

\* <<>> for an attribute the element does not have
NativeNames == { <<>>, << Str("Review") >>, << Str("") >> }
NativeDocumentations == { <<>>, << Documentation >> }
ExtensionNames == { <<>>, << "Saved" >> }
ExtensionDocumentations == { <<>>, << "saved" >>, << "" >> }
With(m, key, optional) == IF optional = <<>> THEN m ELSE Put(m, key, optional[1])

\* native name, native documentation, extension name, extension documentation,
\* extension isActive: every case of the two sources of one property, and all
\* of them together
AttributeCases ==
  { << name, <<>>, extName, <<>>, <<>> >> : name \in NativeNames, extName \in ExtensionNames }
  \cup { << <<>>, documentation, <<>>, extDocumentation, <<>> >> :
           documentation \in NativeDocumentations, extDocumentation \in ExtensionDocumentations }
  \cup { << << Str("Review") >>, << Documentation >>, << "Saved" >>, << "saved" >>, << "false" >> >> }

ElementVariants(id) ==
  { Element(id, ElementType(id),
            With(With([id |-> Str(id)], "name", case[1]), "documentation", case[2]),
            With(With(With(EmptyMap, "name", case[3]), "documentation", case[4]), "isActive", case[5])) :
      case \in AttributeCases }

SelectEdits ==
  { [name |-> "name", value |-> Str("Edited")],
    [name |-> "documentation", value |-> Str("edited")],
    [name |-> "id", value |-> Str("Renamed")],
    [name |-> "note", value |-> Str("x")] }

InitSelect == \E id \in TypedIds : Loaded({id}, "Default Diagram")

SelectElement ==
  \E id \in diagram : \E element \in ElementVariants(id) :
    Run("initializeElementProperties", id, Args("", Undefined, << element >>, EmptyMap),
        initializeElementProperties(Store, id, element))

EditElement ==
  \E id \in diagram : \E edit \in SelectEdits :
    Run("setProperty", id, Args(edit.name, edit.value, <<>>, EmptyMap),
        setProperty(Store, id, edit.name, edit.value))

NextSelect ==
  \/ SelectElement
  \/ EditElement

SpecSelect == InitSelect /\ [][NextSelect]_vars

\* C2: right after initializeElementProperties of an element of a registered
\* type the keys of the record's properties are exactly the property ids of
\* the schema of that type.
SelectFillsExactlySchemaKeys ==
  (call.op = "initializeElementProperties" /\ HasSchema(call.element[1].type)) =>
    /\ Has(propertiesMap, call.elementId)
    /\ DOMAIN propertiesMap[call.elementId].properties = SchemaNames(call.element[1].type)

\* C2, reached: a sequence flow with native attributes and extension values
\* has been selected and has its record
SelectedFlowWithAttributes ==
  /\ call.op = "initializeElementProperties"
  /\ call.element[1].type = "bpmn:SequenceFlow"
  /\ Has(call.element[1].bo, "documentation")
  /\ Has(call.element[1].ext, "name")
  /\ Has(propertiesMap, call.elementId)
  /\ Cardinality(DOMAIN propertiesMap[call.elementId].properties) = Len(SequenceFlowProperties)

\* the properties of the record of an element before a call, {} without one
ExistingProperties(elementId) ==
  IF Has(propertiesMap, elementId) THEN propertiesMap[elementId].properties ELSE EmptyMap

\* the value of the first source that has one: the existing record, the
\* extension value coerced by the kind, the native attribute, the declared
\* default, the zero value of the kind
ByPrecedence(existing, element, propDef) ==
  IF Get(existing, propDef.name) # Undefined THEN existing[propDef.name]
  ELSE IF Has(element.ext, propDef.name) /\ element.ext[propDef.name] # ""
       THEN parseCustomPropertyValue(element.ext[propDef.name], propDef.type)
  ELSE IF Get(element.bo, propDef.name) # Undefined THEN element.bo[propDef.name]
  ELSE IF propDef.defaultValue # Undefined THEN propDef.defaultValue
  ELSE getDefaultValueForPropertyType(propDef.type)

\* C3 as stated: initializeElementProperties gives every property of the
\* schema the value of the first source that has one, in the order existing
\* record, extension value, native attribute, declared default, zero value.
SelectResolvesByStrictPrecedence ==
  [][ (call'.op = "initializeElementProperties" /\ HasSchema(call'.element[1].type)) =>
        LET schema == getElementSchema(call'.element[1].type)
        IN \A i \in 1..Len(schema.properties) :
             propertiesMap'[call'.elementId].properties[schema.properties[i].name]
               = ByPrecedence(ExistingProperties(call'.elementId), call'.element[1], schema.properties[i])
    ]_vars

\* C3, amended: the same for every property other than id and name; id and
\* name take the native attribute of the element whenever it is not empty,
\* whatever the existing record and the extension block hold, and follow the
\* order of the sources otherwise.
SelectResolvesByPrecedenceButIdAndName ==
  [][ (call'.op = "initializeElementProperties" /\ HasSchema(call'.element[1].type)) =>
        LET schema == getElementSchema(call'.element[1].type)
            element == call'.element[1]
        IN \A i \in 1..Len(schema.properties) :
             LET propDef == schema.properties[i]
             IN propertiesMap'[call'.elementId].properties[propDef.name]
                  = IF propDef.name \in {"id", "name"} /\ Truthy(Get(element.bo, propDef.name))
                    THEN element.bo[propDef.name]
                    ELSE ByPrecedence(ExistingProperties(call'.elementId), element, propDef)
    ]_vars

\* C3, reached: a reselect has kept an edited documentation although the
\* element carries an extension value and a native attribute for it, and has
\* given name the native attribute although the extension block holds a name
ReselectKeptEditedValue ==
  /\ call.op = "initializeElementProperties"
  /\ Has(propertiesMap, call.elementId)
  /\ getCustomPropertyFromBpmn(call.element[1], "documentation") = "saved"
  /\ Has(call.element[1].bo, "documentation")
  /\ propertiesMap[call.elementId].properties["documentation"] = Str("edited")
  /\ getCustomPropertyFromBpmn(call.element[1], "name") = "Saved"
  /\ propertiesMap[call.elementId].properties["name"] = Str("Review")
  /\ propertiesMap[call.elementId].properties["isActive"] = Bool(FALSE)

(***************************************************************************)
(* SpecDiagram: the handlers of DiagramComponent and the events of the     *)
(* modeler that reach them.  An import ends in a later task than the       *)
(* handler that started it; at most one import is pending.                 *)
(***************************************************************************)
\* the ids of the elements the palette creates
CreatableIds == {"Activity_1"}

\* the elements the user selects and deletes
TouchedIds == {"StartEvent_1", "UserTask_1", "Activity_1"}

\* the files onImportRequested reads: a BPMN document, a well-formed XML text
\* that is no BPMN document, and a text that is not XML
FileOf(filename, document, wellFormed, bpmn) ==
  [filename |-> filename, document |-> document, wellFormed |-> wellFormed, bpmn |-> bpmn]
File(filename, document) == FileOf(filename, document, TRUE, TRUE)
Files ==
  { File("order.bpmn", {"StartEvent_1", "Activity_1"}),
    FileOf("pom.xml", {}, TRUE, FALSE),
    FileOf("notes.xml", {}, FALSE, FALSE) }

\* FileService.validateFileContent(content, 'xml').isValid
validateFileContent(file) == file.wellFormed

\* the import modeler.importXML is running
Import(document, bpmn) == [document |-> document, bpmn |-> bpmn]

\* fileResult.filename.replace(/\.(xml|bpmn)$/i, ''), for names in one case
EndsWith(s, suffix) == Len(s) >= Len(suffix) /\ SubSeq(s, Len(s) - Len(suffix) + 1, Len(s)) = suffix
DropSuffix(s, suffix) == SubSeq(s, 1, Len(s) - Len(suffix))
DiagramName(filename) ==
  CASE EndsWith(filename, ".xml") -> DropSuffix(filename, ".xml")
    [] EndsWith(filename, ".XML") -> DropSuffix(filename, ".XML")
    [] EndsWith(filename, ".bpmn") -> DropSuffix(filename, ".bpmn")
    [] EndsWith(filename, ".BPMN") -> DropSuffix(filename, ".BPMN")
    [] OTHER -> filename

Handle(op, elementId, args, S) ==
  /\ Commit(S)
  /\ call' = Call(op, elementId, args, S)

\* modeler.on('selection.changed', ...)
SelectionChanged ==
  \/ \E id \in diagram \cap TouchedIds :
       /\ \E selected \in {setSelectedElement(Store, id, << PlainElement(id) >>)} :
            Handle("selection.changed", id, Args("", Undefined, << PlainElement(id) >>, EmptyMap),
                   initializeElementProperties(selected, id, PlainElement(id)))
       /\ diagramState' = setStateSelectedElement(diagramState, id)
       /\ UNCHANGED << diagram, importPending, businessObjects >>
  \/ /\ Handle("selection.changed", NoSelection, NoArgs, setSelectedElement(Store, NoSelection, <<>>))
     /\ diagramState' = setStateSelectedElement(diagramState, "")
     /\ UNCHANGED << diagram, importPending, businessObjects >>

\* the user creates an element: modeler.on('element.changed', ...)
ElementCreated ==
  \E id \in CreatableIds \ diagram :
    /\ diagram' = diagram \cup {id}
    /\ diagramState' = setDiagramModified(diagramState)
    /\ Handle("element.changed", id, NoArgs, Store)
    /\ UNCHANGED << importPending, businessObjects >>

\* the user deletes an element: 'element.changed', and 'selection.changed'
\* with an empty selection when the element was the selected one
ElementRemoved ==
  \E id \in diagram \cap TouchedIds :
    /\ diagram' = diagram \ {id}
    /\ IF diagramState.selectedElement = id
       THEN /\ Handle("element.removed", id, NoArgs, setSelectedElement(Store, NoSelection, <<>>))
            /\ diagramState' = setStateSelectedElement(setDiagramModified(diagramState), "")
       ELSE /\ Handle("element.removed", id, NoArgs, Store)
            /\ diagramState' = setDiagramModified(diagramState)
    /\ UNCHANGED << importPending, businessObjects >>

\* the request, the file it read, and the state and the records it found
Requested(file, S) ==
  /\ Commit(S)
  /\ call' = Call("onImportRequested", "", NoArgs, S)
               @@ [file |-> file, state |-> diagramState, records |-> propertiesMap]

\* onImportRequested
ImportRequested ==
  \E file \in Files :
    /\ importPending = <<>>
    /\ IF ~validateFileContent(file)
       THEN /\ Requested(file, Store)
            /\ UNCHANGED << diagramState, importPending >>
       ELSE /\ importPending' = << Import(file.document, file.bpmn) >>
            /\ diagramState' = setDiagramLoaded(diagramState, file.document, DiagramName(file.filename))
            /\ Requested(file, clearAllProperties(Store))
    /\ UNCHANGED << diagram, businessObjects >>

\* onResetRequested
ResetRequested ==
  /\ importPending = <<>>
  /\ importPending' = << Import(DefaultDocument, TRUE) >>
  /\ diagramState' = setDiagramLoaded(resetDiagram(diagramState), DefaultDocument, "Default Diagram")
  /\ Handle("onResetRequested", "", NoArgs, clearAllProperties(Store))
  /\ UNCHANGED << diagram, businessObjects >>

\* modeler.importXML resolves.  The modeler clears the old diagram, which
\* empties its selection ('selection.changed' with no element), and then the
\* subscriber of DiagramEditorComponent.importXML runs
ImportDone ==
  /\ importPending # <<>>
  /\ importPending[1].bpmn
  /\ diagram' = importPending[1].document
  /\ importPending' = <<>>
  /\ diagramState' = setDiagramLoaded(setStateSelectedElement(diagramState, ""),
                                      importPending[1].document, "")
  /\ businessObjects' = EmptyMap
  /\ Handle("importDone", "", NoArgs, setSelectedElement(Store, NoSelection, <<>>))

\* modeler.importXML rejects: the error callback of DiagramEditorComponent.importXML
ImportFailed ==
  /\ importPending # <<>>
  /\ ~importPending[1].bpmn
  /\ importPending' = <<>>
  /\ Handle("importFailed", "", NoArgs, Store)
  /\ UNCHANGED << diagramState, diagram, businessObjects >>

NextDiagram ==
  \/ SelectionChanged
  \/ ElementCreated
  \/ ElementRemoved
  \/ ImportRequested
  \/ ResetRequested
  \/ ImportDone
  \/ ImportFailed

SpecDiagram == Init /\ [][NextDiagram]_vars

\* the names the requests give the diagram whose text describes the document
RequestedNames(document) ==
  {DiagramName(file.filename) : file \in {f \in Files : f.bpmn /\ f.document = document}}
  \cup (IF document = DefaultDocument THEN {"Default Diagram"} ELSE {})

\* C33: when the import a request started has completed, the diagram name is
\* the one the request gave: the name of the file without its extension, or
\* 'Default Diagram' for a reset.
CompletedImportKeepsItsName ==
  call.op = "importDone" => diagramState.diagramName \in RequestedNames(diagram)

\* the four fields of the diagram state a load writes
LoadFields(state) ==
  [isLoaded |-> state.isLoaded, isDirty |-> state.isDirty, currentXML |-> state.currentXML,
   diagramName |-> state.diagramName]

\* C34: a request whose file is rejected by the XML check leaves the diagram
\* state and the records as they were, and when the modeler rejects the text
\* of a request, with no other event since the request, the diagram state and
\* the records are those the request found.
FailedImportKeepsState ==
  [][ /\ (call'.op = "onImportRequested" /\ ~validateFileContent(call'.file))
         => /\ LoadFields(diagramState') = LoadFields(diagramState)
            /\ propertiesMap' = propertiesMap
      /\ (call'.op = "importFailed" /\ call.op = "onImportRequested")
         => /\ LoadFields(diagramState') = LoadFields(call.state)
            /\ propertiesMap' = call.records
    ]_vars

\* C37: in every reachable state the selected element of DiagramStateService
\* and the selected element id of CustomPropertiesService are both null or
\* designate the same element.
SelectionHoldersAgree == diagramState.selectedElement = selectedElementId

\* C9: in every reachable state every record belongs to an element of the
\* current diagram (the map holds one record for an id at most).
RecordsOfDiagramElementsOnly == \A id \in DOMAIN propertiesMap : id \in diagram

(***************************************************************************)
(* SpecEdit: one element of a registered type is selected and its values   *)
(* are edited in the properties panel.                                     *)
(***************************************************************************)
EditIds == {"UserTask_1", "ServiceTask_1", "ScriptTask_1", "Task_1"}

\* the values the panel writes, by element
PropertyEdits(id) ==
  CASE id = "UserTask_1" ->
         { [name |-> "id", value |-> Str("")], [name |-> "id", value |-> Str("9lives")],
           [name |-> "id", value |-> Str("UserTask_1")],
           [name |-> "formKey", value |-> Str("9x")], [name |-> "formKey", value |-> Str("form_1")],
           [name |-> "assignee", value |-> Str("bob")], [name |-> "assignee", value |-> Str("")],
           [name |-> "priority", value |-> Str("high")] }
    [] id = "Task_1" ->
         { [name |-> "id", value |-> Str("9lives")],
           [name |-> "assignee", value |-> Str("bob")], [name |-> "assignee", value |-> Str("")],
           [name |-> "candidateGroups", value |-> Str("ops")] }
    [] id = "ServiceTask_1" ->
         { [name |-> "implementation", value |-> Str("java")],
           [name |-> "implementation", value |-> Str("expression")],
           [name |-> "implementation", value |-> Str("delegateExpression")],
           [name |-> "implementation", value |-> Str("external")],
           [name |-> "javaClass", value |-> Str("")], [name |-> "javaClass", value |-> Str("com.A")],
           [name |-> "expression", value |-> Str("")], [name |-> "expression", value |-> Str("${x}")],
           [name |-> "topic", value |-> Str("t")],
           [name |-> "timeout", value |-> Num(0)], [name |-> "timeout", value |-> Str("abc")] }
    [] OTHER ->
         { [name |-> "id", value |-> Str("")], [name |-> "id", value |-> Str("ScriptTask_1")],
           [name |-> "script", value |-> Str("")], [name |-> "script", value |-> Str("x")],
           [name |-> "name", value |-> Str("")], [name |-> "name", value |-> Str("Run")],
           [name |-> "priority", value |-> Str("high")], [name |-> "priority", value |-> Num(1)],
           [name |-> "isActive", value |-> Bool(FALSE)], [name |-> "tags", value |-> Arr(<<>>)] }

InitEdit == \E id \in EditIds : Loaded({id}, "Default Diagram")

EditSelect ==
  \E id \in diagram :
    Run("setSelectedElement", id, Args("", Undefined, << PlainElement(id) >>, EmptyMap),
        setSelectedElement(Store, id, << PlainElement(id) >>))

EditProperty ==
  \E id \in diagram : \E edit \in PropertyEdits(id) :
    Run("setProperty", id, Args(edit.name, edit.value, <<>>, EmptyMap),
        setProperty(Store, id, edit.name, edit.value))

EditApplyRules ==
  \E id \in diagram :
    Run("applyBusinessRules", id, NoArgs, applyBusinessRules(Store, id))

NextEdit ==
  \/ EditSelect
  \/ EditProperty
  \/ EditApplyRules

SpecEdit == InitEdit /\ [][NextEdit]_vars

\* the rule tags of the errors a result reports for a property, in order
ErrorTagsFor(result, propertyId) ==
  LET own == SelectSeq(result.errors, LAMBDA e : e.propertyId = propertyId)
  IN [i \in 1..Len(own) |-> own[i].rule]
RuleTypes(property) == [i \in 1..Len(property.validation) |-> property.validation[i].type]

\* C12: for every property whose value is the empty string the stored result
\* of the element reports exactly one error, tagged 'required', when the
\* property carries a single required rule, and exactly the two errors
\* 'required' and 'pattern' when it carries a required rule and a pattern rule
\* the empty string does not match.
EmptyValueFailsEveryRule ==
  \A id \in DOMAIN propertiesMap :
    (propertiesMap[id].schema # "" /\ propertiesMap[id].validationResult # <<>>) =>
      \A i \in 1..Len(getElementSchema(propertiesMap[id].schema).properties) :
        LET property == getElementSchema(propertiesMap[id].schema).properties[i]
            tags == ErrorTagsFor(propertiesMap[id].validationResult[1], property.id)
        IN Get(propertiesMap[id].properties, property.name) = Str("") =>
             /\ RuleTypes(property) = << "required" >> => tags = << "required" >>
             /\ (/\ RuleTypes(property) = << "required", "pattern" >>
                 /\ ~RegExpTest(property.validation[2].value.s, ""))
                => tags = << "required", "pattern" >>

\* what the condition of a rule says of the values of a record: an identifier
\* is the value of that property, a string literal is its text
RECURSIVE Meaning(_, _)
Meaning(node, elementData) ==
  CASE node.op = "ref" -> Get(elementData, node.name)
    [] node.op = "lit" -> Str(node.text)
    [] node.op = "not" -> Bool(~Truthy(Meaning(node.x, elementData)))
    [] node.op = "and" ->
         IF Truthy(Meaning(node.l, elementData)) THEN Meaning(node.r, elementData) ELSE Meaning(node.l, elementData)
    [] node.op = "or" ->
         IF Truthy(Meaning(node.l, elementData)) THEN Meaning(node.l, elementData) ELSE Meaning(node.r, elementData)
    [] node.op = "eq" -> Bool(StrictEquals(Meaning(node.l, elementData), Meaning(node.r, elementData)))
    [] node.op = "test" -> Bool(RegExpTest(node.pattern, ToText(Meaning(node.x, elementData))))
    [] OTHER -> Undefined
ConditionHolds(rule, elementData) == Truthy(Meaning(rule.condition, elementData))

RuleContext(rec) == ValidationContext(rec.elementId, rec.elementType, Cardinality(DOMAIN propertiesMap))
ReportsMessage(result, message) == \E j \in 1..Len(result.errors) : result.errors[j].message = message

\* C15: for every record and every business rule of its schema with action
\* 'validate' whose condition is true of the record's values, the evaluation
\* of the rule gives passed = false and action = 'validate', and the record's
\* validation result is invalid and holds an error with the rule's message.
TrueValidateRuleIsReported ==
  \A id \in DOMAIN propertiesMap :
    (propertiesMap[id].schema # "" /\ propertiesMap[id].validationResult # <<>>) =>
      \A i \in 1..Len(getElementSchema(propertiesMap[id].schema).businessRules) :
        LET rule == getElementSchema(propertiesMap[id].schema).businessRules[i]
            executed == executeBusinessRule(rule, propertiesMap[id].properties, RuleContext(propertiesMap[id]))
        IN (rule.action = "validate" /\ ConditionHolds(rule, propertiesMap[id].properties)) =>
             /\ ~executed.passed
             /\ executed.action = "validate"
             /\ ReportsMessage(propertiesMap[id].validationResult[1], rule.message)
             /\ ~propertiesMap[id].validationResult[1].isValid

\* PropertiesPanelComponent.isPropertyVisible
isPropertyVisible(property, properties) ==
  property.conditional = NoConditional
  \/ Get(properties, property.conditional.dependsOn) \in property.conditional.values
\* the ids of the properties in the projected groups
Projected(groups) == UNION { {groups[g].properties[i].id : i \in 1..Len(groups[g].properties)} : g \in 1..Len(groups) }

\* C19: the groups getPropertyGroups returns for a record hold a property
\* with a conditional clause exactly while the value of the property it
\* depends on is one of the clause's values.
ProjectionOmitsHiddenProperties ==
  \A id \in DOMAIN propertiesMap :
    propertiesMap[id].schema # "" =>
      \A i \in 1..Len(getElementSchema(propertiesMap[id].schema).properties) :
        LET property == getElementSchema(propertiesMap[id].schema).properties[i]
        IN property.conditional # NoConditional =>
             (property.id \in Projected(getPropertyGroups(Store, id))
                <=> isPropertyVisible(property, propertiesMap[id].properties))

\* the result carries the fields of the rule
CarriesRule(result, rule) ==
  /\ result.ruleId = rule.id
  /\ result.action = rule.action
  /\ result.target = rule.target
  /\ result.value = rule.value
  /\ result.message = rule.message

\* C30: after applyBusinessRules has executed the rules of a record's schema,
\* the results stored for the element are one per rule, in the order of the
\* rules, each with the rule's id, action, target, value and message, and with
\* passed false exactly when the condition of the rule is true of the
\* record's values merged with elementId, elementType, allElements and process.
OneResultPerRuleByCondition ==
  ( /\ call.op = "applyBusinessRules"
    /\ Has(propertiesMap, call.elementId)
    /\ propertiesMap[call.elementId].schema # ""
    /\ getElementSchema(propertiesMap[call.elementId].schema).hasBusinessRules )
  => /\ Has(businessRuleResults, call.elementId)
     /\ Len(businessRuleResults[call.elementId])
          = Len(getElementSchema(propertiesMap[call.elementId].schema).businessRules)
     /\ \A i \in 1..Len(getElementSchema(propertiesMap[call.elementId].schema).businessRules) :
          /\ CarriesRule(businessRuleResults[call.elementId][i],
                         getElementSchema(propertiesMap[call.elementId].schema).businessRules[i])
          /\ ~businessRuleResults[call.elementId][i].passed
               <=> ConditionHolds(getElementSchema(propertiesMap[call.elementId].schema).businessRules[i],
                                  EvalContext(propertiesMap[call.elementId].properties,
                                              RuleContext(propertiesMap[call.elementId])))

\* C36: no stored validation result holds two errors with the same propertyId
\* and the same message.
EachViolationIsReportedOnce ==
  \A id \in DOMAIN validationResults :
    \A i, j \in 1..Len(validationResults[id].errors) :
      ( /\ validationResults[id].errors[i].propertyId = validationResults[id].errors[j].propertyId
        /\ validationResults[id].errors[i].message = validationResults[id].errors[j].message )
      => i = j

\* the result reports the message as an error of the property
ReportsOn(result, propertyId, message) ==
  \E j \in 1..Len(result.errors) :
    result.errors[j].propertyId = propertyId /\ result.errors[j].message = message

\* C28: the validation result of a service task holds the error 'Expression
\* is required for this implementation type' on property 'expression', and is
\* invalid, whenever implementation is 'expression' or 'delegateExpression'
\* and expression is empty; it holds no such error when expression is not
\* empty.
ExpressionRequiredIsReported ==
  \A id \in DOMAIN propertiesMap :
    ( /\ propertiesMap[id].elementType = "bpmn:ServiceTask"
      /\ propertiesMap[id].schema # ""
      /\ propertiesMap[id].validationResult # <<>> )
    => /\ ( /\ Get(propertiesMap[id].properties, "implementation")
                 \in {Str("expression"), Str("delegateExpression")}
            /\ ~Truthy(Get(propertiesMap[id].properties, "expression")) )
          => /\ ReportsOn(propertiesMap[id].validationResult[1], "expression",
                          "Expression is required for this implementation type")
             /\ ~propertiesMap[id].validationResult[1].isValid
       /\ Truthy(Get(propertiesMap[id].properties, "expression"))
          => ~ReportsOn(propertiesMap[id].validationResult[1], "expression",
                        "Expression is required for this implementation type")

\* C24: the select of the user task with native id 'Task_1' that has no name,
\* no assignee, no candidate users and no candidate groups stores a result
\* with no error on property 'id' and exactly one warning, on property
\* 'assignee'.
UnassignedUserTaskHasOneWarning ==
  [][ ( /\ call'.op = "setSelectedElement"
        /\ call'.elementId = "Task_1"
        /\ call'.element[1].type = "bpmn:UserTask"
        /\ ~Has(call'.element[1].bo, "name")
        /\ ~Truthy(propertiesMap'["Task_1"].properties["name"])
        /\ ~Truthy(propertiesMap'["Task_1"].properties["assignee"])
        /\ ~Truthy(propertiesMap'["Task_1"].properties["candidateUsers"])
        /\ ~Truthy(propertiesMap'["Task_1"].properties["candidateGroups"]) )
      => /\ propertiesMap'["Task_1"].validationResult = << validationResults'["Task_1"] >>
         /\ \A i \in 1..Len(validationResults'["Task_1"].errors) :
              validationResults'["Task_1"].errors[i].propertyId # "id"
         /\ Len(validationResults'["Task_1"].warnings) = 1
         /\ validationResults'["Task_1"].warnings[1].propertyId = "assignee" ]_vars

UnassignedUserTaskSelected ==
  /\ call.op = "setSelectedElement"
  /\ call.elementId = "Task_1"
  /\ call.element[1].bo = [id |-> Str("Task_1")]
  /\ Has(propertiesMap, "Task_1")
  /\ propertiesMap["Task_1"].properties["id"] = Str("Task_1")
  /\ ~Truthy(propertiesMap["Task_1"].properties["assignee"])
  /\ ~Truthy(propertiesMap["Task_1"].properties["candidateGroups"])
  /\ Len(validationResults["Task_1"].warnings) = 1

(***************************************************************************)
(* SpecValidate: the public methods validateProperty and validateElement   *)
(* of ValidationService, called with rules and values of every kind, next  *)
(* to the property store, which validates the record of UserTask_1.        *)
(***************************************************************************)
ProbeId == "Probe_1"
ProbeContext == ValidationContext(ProbeId, "bpmn:UserTask", 0)

ProbeRules ==
  { Rule("required", Undefined, ""), Rule("min", Num(1), ""), Rule("max", Num(10), ""),
    Rule("max", Undefined, ""), Rule("minLength", Num(2), ""), Rule("maxLength", Num(3), "Too long"),
    Rule("pattern", Str(IdPattern), ""), Rule("pattern", Str(InvalidPattern), ""),
    CustomRule("throws", ""), CustomRule("rejects", "") }
ProbeRuleLists ==
  { <<>> } \cup { << rule >> : rule \in ProbeRules }
  \cup { << Rule("required", Undefined, ""), rule >> : rule \in ProbeRules }
ProbeValues ==
  { Undefined, Null, Str(""), Str("ab"), Str("9x"), Str("abcd"), Num(0), Num(5), Num(11),
    Bool(TRUE), Arr(<<>>), Arr(<< "a" >>), Obj(0), Obj(1) }
ProbeProperty(validation) ==
  PD("assignee", "assignee", "text", "Assignee", Undefined, validation, "execution", 11, NoConditional)

\* the schemas and values validateElement is called with
ProbeElementRules ==
  { Rule("required", Undefined, ""), Rule("min", Num(1), ""), Rule("maxLength", Num(3), "Too long"),
    Rule("pattern", Str(IdPattern), ""), Rule("pattern", Str(InvalidPattern), ""), CustomRule("throws", "") }
ProbeElementValues == { Str(""), Str("9x"), Num(0), Arr(<<>>) }
ProbeBusinessRules ==
  { <<>>,
    << BusinessRule("assigneeFormat", And(Ref("assignee"), Not(Test(IdPattern, Ref("assignee")))),
                    "validate", "assignee", Undefined, "") >> }
ProbeSchema(rule, businessRules) ==
  Schema("bpmn:UserTask", "User Task", << ProbeProperty(<< rule >>) >>, TRUE, businessRules)

\* the call of a method of ValidationService and the result it returned
Probe(op, property, value, schema, elementData, result) ==
  [op |-> op, elementId |-> ProbeId, property |-> property, value |-> value,
   schema |-> schema, elementData |-> elementData, result |-> result]

InitValidate == Loaded({"UserTask_1"}, "Default Diagram")

ValidateProperty ==
  \E validation \in ProbeRuleLists : \E value \in ProbeValues :
    /\ call' = Probe("validateProperty", ProbeProperty(validation), value, <<>>, [assignee |-> value],
                     validateProperty(ProbeProperty(validation), value, [assignee |-> value], ProbeContext))
    /\ UNCHANGED << propertiesMap, selectedElementId, validationResults, businessRuleResults,
                    selectedStream, diagramState, diagram, importPending, businessObjects >>

StoreProbe(op, schema, elementData, v) ==
  /\ Commit(v.S)
  /\ call' = Probe(op, <<>>, Undefined, schema, elementData, v.result)
  /\ UNCHANGED << diagramState, diagram, importPending, businessObjects >>

ValidateElement ==
  \E rule \in ProbeElementRules : \E businessRules \in ProbeBusinessRules : \E value \in ProbeElementValues :
    StoreProbe("validateElement", ProbeSchema(rule, businessRules), [assignee |-> value],
               validateElement(Store, ProbeSchema(rule, businessRules), [assignee |-> value], ProbeContext))

\* a schema of two properties, both with rules, and two business rules
ProbeSchemaOfTwo(rule) ==
  Schema("bpmn:UserTask", "User Task",
         << ProbeProperty(<< Rule("required", Undefined, ""), rule >>),
            PD("formKey", "formKey", "text", "Form Key", Undefined, << Rule("required", Undefined, "") >>,
               "technical", 40, NoConditional) >>,
         TRUE,
         << BusinessRule("assigneeFormat", And(Ref("assignee"), Not(Test(IdPattern, Ref("assignee")))),
                         "validate", "assignee", Undefined, ""),
            BusinessRule("formKeyRequired", Not(Ref("formKey")), "validate", "formKey", Undefined,
                         "Form key is required") >>)

ValidateElementOfTwo ==
  \E rule \in { CustomRule("throws", ""), Rule("pattern", Str(IdPattern), "") } :
  \E value \in { Str(""), Str("9x") } :
    StoreProbe("validateElement", ProbeSchemaOfTwo(rule), [assignee |-> value, formKey |-> Str("")],
               validateElement(Store, ProbeSchemaOfTwo(rule), [assignee |-> value, formKey |-> Str("")],
                               ProbeContext))

ClientSelect ==
  Run("setSelectedElement", "UserTask_1", Args("", Undefined, << PlainElement("UserTask_1") >>, EmptyMap),
      setSelectedElement(Store, "UserTask_1", << PlainElement("UserTask_1") >>))

ClientEdit ==
  \E value \in {Str("bob"), Str("")} :
    Run("setProperty", "UserTask_1", Args("assignee", value, <<>>, EmptyMap),
        setProperty(Store, "UserTask_1", "assignee", value))

NextValidate ==
  \/ ValidateProperty
  \/ ValidateElement
  \/ ValidateElementOfTwo
  \/ ClientSelect
  \/ ClientEdit

SpecValidate == InitValidate /\ [][NextValidate]_vars

\* the rule expects a number and the value is none, or a string and the value
\* is none
KindMismatch(rule, value) ==
  \/ rule.type \in {"min", "max"} /\ value.k # "number"
  \/ rule.type \in {"minLength", "maxLength", "pattern"} /\ value.k # "string"
\* the property with the rules left that match the kind of the value
MatchingRules(property, value) ==
  [property EXCEPT !.validation = SelectSeq(@, LAMBDA rule : ~KindMismatch(rule, value))]
MatchingSchema(schema, elementData) ==
  [schema EXCEPT !.properties =
     [i \in 1..Len(@) |-> MatchingRules(@[i], Get(elementData, @[i].name))]]
NoErrorOfMismatchedRule(property, value, result) ==
  \A i \in 1..Len(property.validation) :
    KindMismatch(property.validation[i], value) =>
      \A j \in 1..Len(result.errors) :
        ~(result.errors[j].propertyId = property.id /\ result.errors[j].rule = property.validation[i].type)

\* C13: a min or max rule on a value that is not a number and a minLength,
\* maxLength or pattern rule on a value that is not a string contribute no
\* error and no warning, whatever the value and the parameter of the rule: the
\* result of validateProperty and of validateElement is the result the other
\* rules give alone.
MismatchedRulesAreSilent ==
  /\ call.op = "validateProperty" =>
       /\ NoErrorOfMismatchedRule(call.property, call.value, call.result)
       /\ call.result = validateProperty(MatchingRules(call.property, call.value), call.value,
                                         call.elementData, ProbeContext)
  /\ call.op = "validateElement" =>
       /\ \A i \in 1..Len(call.schema.properties) :
            NoErrorOfMismatchedRule(call.schema.properties[i],
                                    Get(call.elementData, call.schema.properties[i].name), call.result)
       /\ call.result = performElementValidation(MatchingSchema(call.schema, call.elementData),
                                                 call.elementData, ProbeContext)
       /\ validationResults[ProbeId] = call.result

\* C13, reached: validateProperty of the value '' under the rules required and
\* min reported the required error alone
MismatchedRuleWasSkipped ==
  /\ call.op = "validateProperty"
  /\ call.value = Str("")
  /\ RuleTypes(call.property) = << "required", "min" >>
  /\ ErrorTagsFor(call.result, "assignee") = << "required" >>
  /\ ~call.result.isValid

\* one error for each rule of the property that fails on the value, from the
\* i-th rule on, in the order of the declaration
RECURSIVE ErrorOfEachFailingRule(_, _, _)
ErrorOfEachFailingRule(property, value, i) ==
  IF i > Len(property.validation) THEN <<>>
  ELSE ( IF validateRule(property.validation[i], value, property) # ""
         THEN << ValidationError(property.id, validateRule(property.validation[i], value, property),
                                 property.validation[i].type) >>
         ELSE <<>> )
       \o ErrorOfEachFailingRule(property, value, i + 1)
\* the errors of the properties from the i-th on, each with its cross-property
\* errors
RECURSIVE ErrorsOfEachProperty(_, _, _)
ErrorsOfEachProperty(schema, elementData, i) ==
  IF i > Len(schema.properties) THEN <<>>
  ELSE ErrorOfEachFailingRule(schema.properties[i], Get(elementData, schema.properties[i].name), 1)
       \o performCrossPropertyValidation(schema.properties[i], Get(elementData, schema.properties[i].name),
                                         elementData, ProbeContext).errors
       \o ErrorsOfEachProperty(schema, elementData, i + 1)
RECURSIVE WarningsOfEachProperty(_, _, _)
WarningsOfEachProperty(schema, elementData, i) ==
  IF i > Len(schema.properties) THEN <<>>
  ELSE performCrossPropertyValidation(schema.properties[i], Get(elementData, schema.properties[i].name),
                                      elementData, ProbeContext).warnings
       \o WarningsOfEachProperty(schema, elementData, i + 1)
\* one error for each business rule with action 'validate' whose evaluation
\* did not pass, from the i-th rule on
RECURSIVE ErrorOfEachFailedRule(_, _, _)
ErrorOfEachFailedRule(schema, elementData, i) ==
  IF i > Len(schema.businessRules) THEN <<>>
  ELSE ( IF /\ schema.businessRules[i].action = "validate"
            /\ ~executeBusinessRule(schema.businessRules[i], elementData, ProbeContext).passed
         THEN << RuleError(executeBusinessRule(schema.businessRules[i], elementData, ProbeContext)) >>
         ELSE <<>> )
       \o ErrorOfEachFailedRule(schema, elementData, i + 1)

\* C29: validateProperty reports one error for every rule of the property that
\* fails on the value, in the order of the declaration, followed by the
\* cross-property errors and with the cross-property warnings; validateElement
\* reports this for every property of the schema in order, followed by one
\* error for every failed business rule: no failure stops the evaluation of
\* what comes after it.
ValidationNeverExitsEarly ==
  [][ /\ call'.op = "validateProperty" =>
           /\ call'.result.errors
                = ErrorOfEachFailingRule(call'.property, call'.value, 1)
                  \o performCrossPropertyValidation(call'.property, call'.value, call'.elementData,
                                                    ProbeContext).errors
           /\ call'.result.warnings
                = performCrossPropertyValidation(call'.property, call'.value, call'.elementData,
                                                 ProbeContext).warnings
      /\ call'.op = "validateElement" =>
           /\ call'.result.errors
                = ErrorsOfEachProperty(call'.schema, call'.elementData, 1)
                  \o ErrorOfEachFailedRule(call'.schema, call'.elementData, 1)
           /\ call'.result.warnings = WarningsOfEachProperty(call'.schema, call'.elementData, 1)
           /\ validationResults'[ProbeId] = call'.result ]_vars

\* two rules of the first property failed, and the rule of the second
\* property, the warning and the business rule after them were reported
AllFailuresReported ==
  /\ call.op = "validateElement"
  /\ Len(call.schema.properties) = 2
  /\ call.elementData["assignee"] = Str("")
  /\ ErrorTagsFor(call.result, "assignee") = << "required", "custom" >>
  /\ ErrorTagsFor(call.result, "formKey") = << "required", "formKeyRequired" >>
  /\ Len(call.result.errors) = 4
  /\ Len(call.result.warnings) = 1

ValidIffNoErrors(result) == result.isValid <=> (result.errors = <<>>)

\* C14: in every result validateProperty or validateElement returns, in every
\* result the validation service stores and in the result every record
\* carries, isValid is true exactly when the list of errors is empty, whatever
\* the warnings are.
IsValidExactlyWithoutErrors ==
  /\ call.op \in {"validateProperty", "validateElement"} => ValidIffNoErrors(call.result)
  /\ \A id \in DOMAIN validationResults : ValidIffNoErrors(validationResults[id])
  /\ \A id \in DOMAIN propertiesMap :
       \A i \in 1..Len(propertiesMap[id].validationResult) :
         ValidIffNoErrors(propertiesMap[id].validationResult[i])

\* C14, reached: validateElement returned and stored a valid result that
\* carries a warning while the record of UserTask_1 carries an invalid one
ValidResultWithWarning ==
  /\ call.op = "validateElement"
  /\ call.result.isValid
  /\ call.result.warnings # <<>>
  /\ validationResults[ProbeId] = call.result
  /\ Has(propertiesMap, "UserTask_1")
  /\ propertiesMap["UserTask_1"].validationResult # <<>>
  /\ ~propertiesMap["UserTask_1"].validationResult[1].isValid
  /\ propertiesMap["UserTask_1"].validationResult[1].warnings # <<>>

(***************************************************************************)
(* SpecFaults: the store and the validation service are handed values of   *)
(* the wrong kind, persisted texts that do not parse, and rules that raise *)
(* exceptions: a pattern that is no regular expression, a custom validator *)
(* that throws, a condition that is malformed or names an unknown          *)
(* identifier.                                                             *)
(***************************************************************************)
FaultId == "ServiceTask_1"

\* the element as saved by an earlier session: timeout and isActive persisted
\* as texts that are no number and no boolean
SavedElement ==
  Element(FaultId, ElementType(FaultId), NativeAttributes(FaultId), [timeout |-> "abc", isActive |-> "maybe"])
FaultElements == { PlainElement(FaultId), SavedElement }
FaultEdits ==
  { [name |-> "timeout", value |-> Str("abc")], [name |-> "implementation", value |-> Num(1)],
    [name |-> "javaClass", value |-> Obj(0)], [name |-> "timeout", value |-> Null] }
FaultBatches == { [timeout |-> Bool(TRUE), expression |-> Arr(<< "a" >>)] }
FaultImports == { ImportData(FaultId, "bpmn:ServiceTask", << [timeout |-> Str("x"), id |-> Num(7)] >>) }

FaultRules == { Rule("pattern", Str(InvalidPattern), ""), CustomRule("throws", "") }
FaultValues == { Str("a"), Num(1) }
FaultBusinessRules ==
  { << BusinessRule("malformed", Malformed, "validate", "assignee", Undefined, "Malformed") >>,
    << BusinessRule("unknownName", Not(Ref("unknownName")), "validate", "", Undefined, "Unknown") >> }

InitFaults == Loaded({FaultId}, "Default Diagram")

FaultSelect ==
  \E element \in FaultElements :
    Run("setSelectedElement", FaultId, Args("", Undefined, << element >>, EmptyMap),
        setSelectedElement(Store, FaultId, << element >>))

FaultEdit ==
  \E edit \in FaultEdits :
    Run("setProperty", FaultId, Args(edit.name, edit.value, <<>>, EmptyMap),
        setProperty(Store, FaultId, edit.name, edit.value))

FaultBatch ==
  \E batch \in FaultBatches :
    Run("setProperties", FaultId, Args("", Undefined, <<>>, batch), setProperties(Store, FaultId, batch))

FaultImport ==
  \E data \in FaultImports :
    Run("importElementProperties", data.elementId, NoArgs, importElementProperties(Store, data))

FaultApplyRules ==
  Run("applyBusinessRules", FaultId, NoArgs, applyBusinessRules(Store, FaultId))

FaultValidate ==
  \E rule \in FaultRules : \E businessRules \in FaultBusinessRules : \E value \in FaultValues :
    StoreProbe("validateElement", ProbeSchema(rule, businessRules), [assignee |-> value],
               validateElement(Store, ProbeSchema(rule, businessRules), [assignee |-> value], ProbeContext))

StoreProbeRules(rules, elementData, r) ==
  /\ Commit(r.S)
  /\ call' = Probe("executeBusinessRules", <<>>, Undefined, ProbeSchema(Rule("required", Undefined, ""), rules),
                   elementData, r.results)
  /\ UNCHANGED << diagramState, diagram, importPending, businessObjects >>

FaultExecuteRules ==
  \E rules \in FaultBusinessRules : \E value \in FaultValues :
    StoreProbeRules(rules, [assignee |-> value],
                    executeBusinessRules(Store, rules, [assignee |-> value], ProbeContext))

NextFaults ==
  \/ FaultSelect
  \/ FaultEdit
  \/ FaultBatch
  \/ FaultImport
  \/ FaultApplyRules
  \/ FaultValidate
  \/ FaultExecuteRules

SpecFaults == InitFaults /\ [][NextFaults]_vars

\* a validation result as a caller can read it: no exception in place of a message
SoundResult(result) ==
  /\ result.isValid \in BOOLEAN
  /\ \A i \in 1..Len(result.errors) : result.errors[i].message \notin {"", Thrown}
SoundRuleResults(results) == \A i \in 1..Len(results) : results[i].passed \in BOOLEAN
SoundValue(value) == value.k \in {"undefined", "null", "string", "number", "boolean", "array", "object"}

\* every failure has ended as an entry of a result
FaultsAreEntries ==
  /\ \A id \in DOMAIN validationResults : SoundResult(validationResults[id])
  /\ \A id \in DOMAIN businessRuleResults : SoundRuleResults(businessRuleResults[id])
  /\ \A id \in DOMAIN propertiesMap :
       /\ \A i \in 1..Len(propertiesMap[id].validationResult) : SoundResult(propertiesMap[id].validationResult[i])
       /\ \A name \in DOMAIN propertiesMap[id].properties : SoundValue(propertiesMap[id].properties[name])
  /\ call.op = "validateElement" =>
       /\ validationResults[ProbeId] = call.result
       /\ call.elementData["assignee"].k = "string" =>
            \E i \in 1..Len(call.result.errors) :
              /\ call.result.errors[i].propertyId = "assignee"
              /\ call.result.errors[i].rule = call.schema.properties[1].validation[1].type
  /\ call.op = "executeBusinessRules" =>
       /\ businessRuleResults[ProbeId] = call.result
       /\ Len(call.result) = Len(call.schema.businessRules)

\* the store took the call: the values are written, the record is validated
StoreTookTheCall ==
  /\ call'.op = "setSelectedElement" =>
       /\ selectedElementId' = call'.elementId
       /\ Has(propertiesMap', call'.elementId)
  /\ (call'.op = "setProperty" /\ Has(propertiesMap, call'.elementId)) =>
       propertiesMap'[call'.elementId].properties = Put(propertiesMap[call'.elementId].properties, call'.name, call'.value)
  /\ (call'.op = "setProperties" /\ Has(propertiesMap, call'.elementId)) =>
       propertiesMap'[call'.elementId].properties = Assign(propertiesMap[call'.elementId].properties, call'.batch)
  /\ call'.op = "importElementProperties" => Has(propertiesMap', call'.elementId)
  /\ (call'.op \in {"setSelectedElement", "setProperty", "setProperties", "importElementProperties"}
      /\ Has(propertiesMap', call'.elementId)) =>
       /\ call'.validations = 1
       /\ propertiesMap'[call'.elementId].validationResult
            = << performElementValidation(getElementSchema(propertiesMap'[call'.elementId].schema),
                                          propertiesMap'[call'.elementId].properties,
                                          ValidationContext(call'.elementId, propertiesMap'[call'.elementId].elementType,
                                                            Cardinality(DOMAIN propertiesMap))) >>

\* C17: whatever values, persisted texts and rules the calls are given, no
\* exception leaves the store or the validation service: every stored and
\* returned result is a sound result in which the failure is an entry, every
\* stored value is a value, and every later call of the store is carried out.
NoExceptionEscapes == []FaultsAreEntries /\ [][StoreTookTheCall]_vars

\* C17, reached: after a pattern that is no regular expression and a malformed
\* condition were evaluated, the store has written a value of the wrong kind
\* to the record of a saved element and validated it
StoreUsedAfterFaults ==
  /\ call.op = "setProperty"
  /\ call.value = Str("abc")
  /\ Has(validationResults, ProbeId)
  /\ \E i \in 1..Len(validationResults[ProbeId].errors) :
       validationResults[ProbeId].errors[i].message = "Validation error for Assignee"
  /\ Has(businessRuleResults, ProbeId)
  /\ businessRuleResults[ProbeId][1].ruleId = "malformed"
  /\ Has(businessRuleResults, FaultId)
  /\ Has(propertiesMap, FaultId)
  /\ propertiesMap[FaultId].properties["timeout"] = Str("abc")
  /\ propertiesMap[FaultId].properties["isActive"] = Bool(FALSE)
  /\ propertiesMap[FaultId].validationResult # <<>>

(***************************************************************************)
(* SpecRules: applyBusinessRules on a user task whose schema declares, next *)
(* to its two registered rules, one rule with action 'default' or 'hide'.  *)
(* No registered schema declares such a rule; a rule of these actions adds *)
(* no error, so the validation of the record is that of the registered     *)
(* schema.                                                                 *)
(***************************************************************************)
RulesId == "UserTask_1"

DeclaredRules ==
  { BusinessRule("defaultAssignee", Eq(Ref("priority"), Lit("high")), "default", "assignee", Str("manager"), ""),
    BusinessRule("defaultFormKey", Not(Ref("formKey")), "default", "formKey", Str("form_1"), ""),
    BusinessRule("hideDueDate", Not(Ref("assignee")), "hide", "dueDate", Undefined, "") }
RulesEdits ==
  { [name |-> "priority", value |-> Str("high")], [name |-> "priority", value |-> Str("medium")],
    [name |-> "assignee", value |-> Str("bob")], [name |-> "assignee", value |-> Str("")],
    [name |-> "formKey", value |-> Str("review")], [name |-> "formKey", value |-> Str("")],
    [name |-> "candidateGroups", value |-> Str("staff")] }

InitRules == Loaded({RulesId}, "Default Diagram")

RulesSelect ==
  Run("setSelectedElement", RulesId, Args("", Undefined, << PlainElement(RulesId) >>, EmptyMap),
      setSelectedElement(Store, RulesId, << PlainElement(RulesId) >>))

RulesEdit ==
  \E edit \in RulesEdits :
    Run("setProperty", RulesId, Args(edit.name, edit.value, <<>>, EmptyMap),
        setProperty(Store, RulesId, edit.name, edit.value))

\* the call with the rule the schema declares
RunRule(rule, S) ==
  /\ Commit(S)
  /\ call' = Call("applyBusinessRules", RulesId, NoArgs, S) @@ [rule |-> rule]
  /\ UNCHANGED << diagramState, diagram, importPending, businessObjects >>

RulesApply ==
  \E rule \in DeclaredRules :
    /\ Has(propertiesMap, RulesId)
    /\ RunRule(rule, applyRules(Store, RulesId, UserTaskBusinessRules \o << rule >>))

\* rules that write each other's inputs, in both orders, and a rule that
\* writes its own input
AssigneeFromFormKey ==
  BusinessRule("assigneeFromFormKey", Ref("formKey"), "default", "assignee", Str("manager"), "")
FormKeyFromAssignee ==
  BusinessRule("formKeyFromAssignee", Not(Ref("assignee")), "default", "formKey", Str(""), "")
PriorityFromPriority ==
  BusinessRule("priorityFromPriority", Eq(Ref("priority"), Lit("high")), "default", "priority", Str("medium"), "")
DeclaredRuleLists ==
  { << AssigneeFromFormKey, FormKeyFromAssignee >>,
    << FormKeyFromAssignee, AssigneeFromFormKey >>,
    << PriorityFromPriority >> }

\* the evaluations of the rules the call has published on businessRuleResults$
Rounds(S) == Len(SelectSeq(S.observed, LAMBDA o : o.stream = "businessRuleResults$"))

\* applyBusinessRules for a schema that declares one of the lists
RulesApplyAll ==
  \E rules \in DeclaredRuleLists :
    /\ Has(propertiesMap, RulesId)
    /\ \E S \in {applyRules(Store, RulesId, UserTaskBusinessRules \o rules)} :
         /\ Commit(S)
         /\ call' = Call("applyBusinessRules", RulesId, NoArgs, S)
                      @@ [rules |-> UserTaskBusinessRules \o rules, rounds |-> Rounds(S)]
         /\ UNCHANGED << diagramState, diagram, importPending, businessObjects >>

NextRules ==
  \/ RulesSelect
  \/ RulesEdit
  \/ RulesApply
  \/ RulesApplyAll

SpecRules == InitRules /\ [][NextRules]_vars

DefaultWrites(rules) == {i \in 1..Len(rules) : rules[i].action = "default" /\ rules[i].target # ""}

\* C31: one applyBusinessRules evaluates the rules of the schema in one round:
\* the stored results are one per rule, each the outcome of the rule on the
\* values the record had when the call started, also when a 'default' write
\* of the call changes what another rule reads; the writes validate the
\* record once each and start no further evaluation.
RulesAreEvaluatedInOneRound ==
  [][ (/\ call'.op = "applyBusinessRules"
       /\ "rules" \in DOMAIN call'
       /\ Has(propertiesMap, call'.elementId))
      => /\ call'.rounds = 1
         /\ call'.validations = Cardinality(DefaultWrites(call'.rules))
         /\ Len(businessRuleResults'[call'.elementId]) = Len(call'.rules)
         /\ \A i \in 1..Len(call'.rules) :
              /\ CarriesRule(businessRuleResults'[call'.elementId][i], call'.rules[i])
              /\ ~businessRuleResults'[call'.elementId][i].passed
                   <=> evaluateExpression(call'.rules[i].condition,
                                          EvalContext(propertiesMap[call'.elementId].properties,
                                                      RuleContext(propertiesMap[call'.elementId])))
    ]_vars

\* a call has written the input of a rule: the stored result of the rule is
\* not what the rule gives on the values the record has now
WriteChangedARuleInput ==
  /\ call.op = "applyBusinessRules"
  /\ "rules" \in DOMAIN call
  /\ call.rounds = 1
  /\ Has(propertiesMap, call.elementId)
  /\ \E i \in 1..Len(call.rules) :
       /\ call.rules[i].action = "default"
       /\ ~businessRuleResults[call.elementId][i].passed
       /\ ~evaluateExpression(call.rules[i].condition,
                               EvalContext(propertiesMap[call.elementId].properties,
                                           RuleContext(propertiesMap[call.elementId])))

(***************************************************************************)
(* SpecGroups: getPropertyGroups for a record whose schema declares up to  *)
(* MaxProperties properties, with and without a group, of registered and   *)
(* unregistered groups, with and without an order.                         *)
(***************************************************************************)
MaxProperties == 3
DeclaredGroups == {"", "general", "execution", "custom", "audit"}
DeclaredOrders == {0, 1, 2}
PropertyId(i) == "p" \o NatText(i)
DeclaredProperty(i, group, order) ==
  PD(PropertyId(i), PropertyId(i), "text", PropertyId(i), Undefined, <<>>, group, order, NoConditional)
DeclaredList(n, groups, orders) == [i \in 1..n |-> DeclaredProperty(i, groups[i], orders[i])]
DeclaredSchema(properties) == Schema("bpmn:Task", "Task", properties, FALSE, <<>>)

InitGroups ==
  /\ propertiesMap = EmptyMap
  /\ selectedElementId = NoSelection
  /\ validationResults = EmptyMap
  /\ businessRuleResults = EmptyMap
  /\ selectedStream = [id |-> "", live |-> FALSE]
  /\ diagramState = setDiagramLoaded(DiagramState(FALSE, FALSE, {}, "", "Untitled Diagram"), {}, "Default Diagram")
  /\ diagram = {}
  /\ importPending = <<>>
  /\ businessObjects = EmptyMap
  /\ \E n \in 0..MaxProperties :
       \E groups \in [1..n -> DeclaredGroups] : \E orders \in [1..n -> DeclaredOrders] :
         call = [op |-> "schema", schema |-> DeclaredSchema(DeclaredList(n, groups, orders)), result |-> <<>>]

GetPropertyGroups ==
  /\ call.op = "schema"
  /\ call' = [op |-> "getPropertyGroups", schema |-> call.schema, result |-> ProjectGroups(call.schema)]
  /\ UNCHANGED << propertiesMap, selectedElementId, validationResults, businessRuleResults,
                  selectedStream, diagramState, diagram, importPending, businessObjects >>

NextGroups == GetPropertyGroups

SpecGroups == InitGroups /\ [][NextGroups]_vars

\* the labels of the unregistered groups, capitalised
UnregisteredLabels == [custom |-> "Custom", audit |-> "Audit"]
\* the position of a property in the declaration of the schema
DeclaredAt(schema, id) == CHOOSE i \in 1..Len(schema.properties) : schema.properties[i].id = id

GroupsAreOrdered(schema, groups) ==
  \* every property is in exactly one group: its own, or 'general' when it declares none
  /\ \A i \in 1..Len(schema.properties) :
       \E g \in 1..Len(groups) :
         /\ groups[g].id = (IF schema.properties[i].group = "" THEN "general" ELSE schema.properties[i].group)
         /\ \E k \in 1..Len(groups[g].properties) : groups[g].properties[k] = schema.properties[i]
         /\ \A h \in 1..Len(groups) : \A k \in 1..Len(groups[h].properties) :
              groups[h].properties[k].id = schema.properties[i].id => h = g
  /\ \A g \in 1..Len(groups) :
       /\ groups[g].properties # <<>>
       /\ \A k \in 1..Len(groups[g].properties) :
            \E i \in 1..Len(schema.properties) : groups[g].properties[k] = schema.properties[i]
       /\ \A h \in 1..Len(groups) : groups[h].id = groups[g].id => h = g
       \* a registered group has its registered label and order, another one 999
       /\ groups[g].id \in DOMAIN PropertyGroups =>
            /\ groups[g].order = PropertyGroups[groups[g].id].order
            /\ groups[g].label = PropertyGroups[groups[g].id].label
            /\ groups[g].order < 999
       /\ groups[g].id \notin DOMAIN PropertyGroups =>
            /\ groups[g].order = 999
            /\ groups[g].label = UnregisteredLabels[groups[g].id]
       \* the groups ascend by order
       /\ \A h \in (g + 1)..Len(groups) : groups[g].order <= groups[h].order
       \* the properties of a group ascend by order, equal orders in declaration order
       /\ \A k \in 1..Len(groups[g].properties) : \A l \in (k + 1)..Len(groups[g].properties) :
            \/ groups[g].properties[k].order < groups[g].properties[l].order
            \/ /\ groups[g].properties[k].order = groups[g].properties[l].order
               /\ DeclaredAt(schema, groups[g].properties[k].id) < DeclaredAt(schema, groups[g].properties[l].id)

\* C20: getPropertyGroups returns the groups in ascending order of their
\* order; a property without a group is in group 'general'; a group that is
\* not registered has order 999 and the capitalised id as label; inside each
\* group the properties ascend by their own order, properties of equal order
\* in the order of their declaration.
ProjectedGroupsAreOrdered ==
  call.op = "getPropertyGroups" => GroupsAreOrdered(call.schema, call.result)

\* C20, reached: of three properties declared as (custom, 2), (general, 1) and
\* (no group, 1) the projection has put the last two into 'general' in their
\* declaration order and the group 'custom', declared first, last
GroupsWereSorted ==
  /\ call.op = "getPropertyGroups"
  /\ Len(call.schema.properties) = 3
  /\ call.schema.properties[1].group = "custom"
  /\ Len(call.result) = 2
  /\ call.result[1].id = "general"
  /\ [k \in 1..Len(call.result[1].properties) |-> call.result[1].properties[k].id] = << "p2", "p3" >>
  /\ call.schema.properties[3].group = ""
  /\ call.schema.properties[2].order = call.schema.properties[3].order
  /\ call.result[2].id = "custom"
  /\ call.result[2].label = "Custom"
  /\ call.result[2].order = 999

(***************************************************************************)
(* SpecParse: a diagram of one saved element whose extension block holds   *)
(* one persisted text; the element is selected into a store without a      *)
(* record of it, and parseCustomPropertyValue is applied to every text and *)
(* kind.                                                                   *)
(***************************************************************************)
PersistedIds == {"UserTask_1", "ServiceTask_1"}
PersistedTexts ==
  {"true", "false", "30", "-5", " 7", "abc", "12abc", "a, b,,c ", " , ", "{}", "{oops", "high"}
PropertyKinds == {"boolean", "number", "multiSelect", "json", "text", "select"}

\* the element with one {name, value} pair in its extension block
PersistedElement(id, name, text) ==
  Element(id, ElementType(id), NativeAttributes(id), Put(EmptyMap, name, text))

\* the call, with the saved element the diagram holds
Parsed(saved, propertyType, result) ==
  [op |-> "parseCustomPropertyValue", elementId |-> saved.elementId, name |-> saved.name,
   value |-> saved.value, element |-> saved.element, propertyType |-> propertyType, result |-> result]

InitParse ==
  \E id \in PersistedIds : \E i \in 1..Len(getElementSchema(ElementType(id)).properties) :
    \E text \in PersistedTexts :
      /\ propertiesMap = EmptyMap
      /\ selectedElementId = NoSelection
      /\ validationResults = EmptyMap
      /\ businessRuleResults = EmptyMap
      /\ selectedStream = [id |-> "", live |-> FALSE]
      /\ diagramState = setDiagramLoaded(DiagramState(FALSE, FALSE, {}, "", "Untitled Diagram"),
                                         {id}, "Default Diagram")
      /\ diagram = {id}
      /\ importPending = <<>>
      /\ businessObjects = EmptyMap
      /\ call = Call("importXML", id,
                     Args(getElementSchema(ElementType(id)).properties[i].name, Str(text),
                          << PersistedElement(id, getElementSchema(ElementType(id)).properties[i].name, text) >>,
                          EmptyMap),
                     Store)

ParseValue ==
  \E kind \in PropertyKinds :
    /\ call' = Parsed(call, kind, parseCustomPropertyValue(call.value.s, kind))
    /\ UNCHANGED << propertiesMap, selectedElementId, validationResults, businessRuleResults,
                    selectedStream, diagramState, diagram, importPending, businessObjects >>

ParseSelect ==
  Run("initializeElementProperties", call.elementId, Args(call.name, call.value, call.element, EmptyMap),
      initializeElementProperties(Store, call.elementId, call.element[1]))

ParseRemove ==
  Run("removeElementProperties", call.elementId, Args(call.name, call.value, call.element, EmptyMap),
      removeElementProperties(Store, call.elementId))

NextParse ==
  \/ ParseValue
  \/ ParseSelect
  \/ ParseRemove

SpecParse == InitParse /\ [][NextParse]_vars

\* what the re-parse of a persisted text has to give, by kind
Reparse(text, kind, expected) == [text |-> text, kind |-> kind, expected |-> expected]
PersistedCases ==
  { Reparse("true", "boolean", Bool(TRUE)), Reparse("false", "boolean", Bool(FALSE)),
    Reparse("30", "number", Num(30)), Reparse("-5", "number", Num(0 - 5)), Reparse(" 7", "number", Num(7)),
    Reparse("abc", "number", Num(0)), Reparse("high", "number", Num(0)), Reparse("{oops", "number", Num(0)),
    Reparse("a, b,,c ", "multiSelect", Arr(<< "a", "b", "c" >>)),
    Reparse("abc", "multiSelect", Arr(<< "abc" >>)), Reparse(" , ", "multiSelect", Arr(<<>>)),
    Reparse("{}", "json", Obj(0)), Reparse("30", "json", Num(30)), Reparse("-5", "json", Num(0 - 5)),
    Reparse("true", "json", Bool(TRUE)), Reparse("false", "json", Bool(FALSE)),
    Reparse("{oops", "json", Obj(0)), Reparse("abc", "json", Obj(0)), Reparse("12abc", "json", Obj(0)),
    Reparse("a, b,,c ", "json", Obj(0)) }
ExpectedOf(text, kind) == {c.expected : c \in {d \in PersistedCases : d.text = text /\ d.kind = kind}}

KindOf(elementType, name) ==
  (CHOOSE d \in {getElementSchema(elementType).properties[i] :
                   i \in 1..Len(getElementSchema(elementType).properties)} : d.name = name).type

BusinessObject(bos, key) == Assign(NativeAttributes(key), IF Has(bos, key) THEN bos[key] ELSE EmptyMap)
\* element.id
CurrentId(bos, key) == BusinessObject(bos, key).id.s
\* the element as the modeler hands it over; no handler writes an extension
\* block, it holds what the document was loaded with
CurrentElement(bos, key) == Element(CurrentId(bos, key), ElementType(key), BusinessObject(bos, key), EmptyMap)
\* elementRegistry.get(id): the elements registered under the id
RegistryGet(bos, document, id) == {key \in document : CurrentId(bos, key) = id}

\* value ? [{ text: value }] : [], an array of {text} objects held by their texts
DocumentationOf(value) == IF Truthy(value) THEN Arr(<< ToText(value) >>) ELSE Arr(<<>>)

\* modeling.updateProperties(element, properties)
Written(bos, key, name, value) == Put(bos, key, Put(IF Has(bos, key) THEN bos[key] ELSE EmptyMap, name, value))
\* modeling.updateProperties(element, { id: value }): ElementRegistry.updateId
\* rejects an empty id and an id that is registered
IdRejected(bos, document, key, value) ==
  /\ value # BusinessObject(bos, key).id
  /\ \/ ~Truthy(value)
     \/ value.k # "string"
     \/ RegistryGet(bos, document, value.s) # {}

\* what applyPropertyToBpmnElement does to the element it found
updateElement(bos, document, key, propertyId, value) ==
  CASE propertyId = "id" ->
         IF IdRejected(bos, document, key, value) THEN bos ELSE Written(bos, key, "id", value)
    [] propertyId = "name" -> Written(bos, key, "name", value)
    [] propertyId = "documentation" -> Written(bos, key, "documentation", DocumentationOf(value))
    [] OTHER -> bos
\* whether it reaches modeling.updateProperties and the command is executed
updatesElement(bos, document, key, propertyId, value) ==
  CASE propertyId = "id" -> ~IdRejected(bos, document, key, value)
    [] propertyId \in {"name", "documentation"} -> TRUE
    [] OTHER -> FALSE

\* applyPropertyToBpmnElement with the id of currentElement
applyPropertyToBpmnElement(bos, document, elementId, propertyId, value) ==
  IF RegistryGet(bos, document, elementId) = {} THEN bos
  ELSE updateElement(bos, document, CHOOSE key \in RegistryGet(bos, document, elementId) : TRUE,
                     propertyId, value)
\* modeler.on('element.changed', ...) of DiagramComponent
elementChanged(state, bos, document, elementId, propertyId, value) ==
  IF /\ RegistryGet(bos, document, elementId) # {}
     /\ updatesElement(bos, document, CHOOSE key \in RegistryGet(bos, document, elementId) : TRUE,
                       propertyId, value)
  THEN setDiagramModified(state) ELSE state

(***************************************************************************)
(* SpecPanel: one element is selected in the modeler and edited in the     *)
(* properties panel; the store is also written directly.                   *)
(***************************************************************************)
PanelIds == {"UserTask_1"}
PanelEdits ==
  { [name |-> "id", value |-> Str("Task_2")], [name |-> "id", value |-> Str("")],
    [name |-> "name", value |-> Str("Approve")],
    [name |-> "documentation", value |-> Str("note")],
    [name |-> "priority", value |-> Str("high")], [name |-> "assignee", value |-> Str("bob")] }
StoreWrites == { [name |-> "assignee", value |-> Str("ann")] }

InitPanel == \E id \in PanelIds : Loaded({id}, "Default Diagram")

\* modeler.on('selection.changed', ...) with one selected element
PanelSelect ==
  \E key \in diagram : \E element \in {CurrentElement(businessObjects, key)} :
    /\ \E selected \in {setSelectedElement(Store, element.id, << element >>)} :
         Handle("selection.changed", element.id, Args("", Undefined, << element >>, EmptyMap),
                initializeElementProperties(selected, element.id, element))
    /\ diagramState' = setStateSelectedElement(diagramState, element.id)
    /\ UNCHANGED << diagram, importPending, businessObjects >>

\* onPropertyValueChange; currentElement is the record the panel's
\* subscription received last
PanelChange ==
  \E edit \in PanelEdits :
    /\ selectedStream.id # ""
    /\ \E written \in {setProperty(Store, selectedStream.id, edit.name, edit.value)} :
         Handle("onPropertyValueChange", selectedStream.id, Args(edit.name, edit.value, <<>>, EmptyMap),
                applyBusinessRules(written, selectedStream.id))
    /\ businessObjects' = applyPropertyToBpmnElement(businessObjects, diagram, selectedStream.id,
                                                     edit.name, edit.value)
    /\ diagramState' = elementChanged(diagramState, businessObjects, diagram, selectedStream.id,
                                      edit.name, edit.value)
    /\ UNCHANGED << diagram, importPending >>

\* CustomPropertiesService.setProperty, called by another client
PanelStoreWrite ==
  \E id \in DOMAIN propertiesMap : \E edit \in StoreWrites :
    Run("setProperty", id, Args(edit.name, edit.value, <<>>, EmptyMap),
        setProperty(Store, id, edit.name, edit.value))

NextPanel ==
  \/ PanelSelect
  \/ PanelChange
  \/ PanelStoreWrite

SpecPanel == InitPanel /\ [][NextPanel]_vars

\* a store that holds nothing
FreshStore ==
  [props |-> EmptyMap, selected |-> NoSelection, vres |-> EmptyMap, bres |-> EmptyMap, gen |-> EmptyMap,
   map |-> 0, selLast |-> NoObject, notifications |-> 0, validations |-> 0, emitted |-> <<>>, observed |-> <<>>]
\* the values a fresh store holds for the element after it was selected
Reselected(bos, key) ==
  initializeElementProperties(FreshStore, CurrentId(bos, key), CurrentElement(bos, key))
    .props[CurrentId(bos, key)].properties

\* C23: after the panel has written a custom property of the selected element
\* (priority = 'high'), the element as the modeler holds and exports it,
\* selected into a fresh store, gives the written value for that property.
WrittenValueSurvivesRoundTrip ==
  [][ ( /\ call'.op = "onPropertyValueChange"
        /\ Has(propertiesMap', call'.elementId)
        /\ call'.name \notin {"id", "name", "documentation"} )
      => \A key \in diagram' : Reselected(businessObjects', key)[call'.name] = call'.value ]_vars

\* the document holds the value for the property of one of its elements
DocumentHolds(bos, document, name, value) ==
  \E key \in document :
    /\ Has(BusinessObject(bos, key), name)
    /\ \/ BusinessObject(bos, key)[name] = value
       \/ name = "documentation" /\ BusinessObject(bos, key)[name] = DocumentationOf(value)

\* C25: after every change of a property of a record, by onPropertyValueChange
\* of the panel or by setProperty of the store, the document of the diagram
\* holds the new value for the element and the property.
EveryChangeIsMirrored ==
  [][ ( /\ call'.op \in {"onPropertyValueChange", "setProperty"}
        /\ Has(propertiesMap, call'.elementId) )
      => DocumentHolds(businessObjects', diagram', call'.name, call'.value) ]_vars

(***************************************************************************)
(* SpecState: the methods of DiagramStateService, called in any order on   *)
(* the state the service is constructed with.  The call records, next to   *)
(* the method, whether setDiagramModified has been called since the last   *)
(* setDiagramLoaded, setDiagramExported, resetDiagram or clearState, and   *)
(* whether setDiagramLoaded has been called since the last clearState.     *)
(***************************************************************************)
StateDocuments == {DefaultDocument, {"StartEvent_1"}}
StateNames == {"", "order", "invoice"}
StateElements == {"", "UserTask_1"}

StateCall(op, modified, loaded) == [op |-> op, modified |-> modified, loaded |-> loaded]

InitState ==
  /\ propertiesMap = EmptyMap
  /\ selectedElementId = NoSelection
  /\ validationResults = EmptyMap
  /\ businessRuleResults = EmptyMap
  /\ selectedStream = [id |-> "", live |-> FALSE]
  /\ diagramState = initialState
  /\ diagram = {}
  /\ importPending = <<>>
  /\ businessObjects = EmptyMap
  /\ call = StateCall("init", FALSE, FALSE)

\* a method of the service is called: the state it publishes
Called(op, modified, loaded, state) ==
  /\ diagramState' = state
  /\ call' = StateCall(op, modified, loaded)
  /\ UNCHANGED << propertiesMap, selectedElementId, validationResults, businessRuleResults,
                  selectedStream, diagram, importPending, businessObjects >>

SetDiagramLoaded ==
  \E xml \in StateDocuments : \E name \in StateNames :
    Called("setDiagramLoaded", FALSE, TRUE, setDiagramLoaded(diagramState, xml, name))
SetDiagramModified == Called("setDiagramModified", TRUE, call.loaded, setDiagramModified(diagramState))
SetDiagramExported == Called("setDiagramExported", FALSE, call.loaded, setDiagramExported(diagramState))
ResetDiagram == Called("resetDiagram", FALSE, call.loaded, resetDiagram(diagramState))
SetStateSelectedElement ==
  \E id \in StateElements :
    Called("setSelectedElement", call.modified, call.loaded, setStateSelectedElement(diagramState, id))
SetDiagramName ==
  \E name \in StateNames :
    Called("setDiagramName", call.modified, call.loaded, setDiagramName(diagramState, name))
ClearState == Called("clearState", FALSE, FALSE, clearState(diagramState))

NextState ==
  \/ SetDiagramLoaded
  \/ SetDiagramModified
  \/ SetDiagramExported
  \/ ResetDiagram
  \/ SetStateSelectedElement
  \/ SetDiagramName
  \/ ClearState

SpecState == InitState /\ [][NextState]_vars

\* C38: after every call hasUnsavedChanges() is true exactly when
\* setDiagramModified has been called since the last setDiagramLoaded,
\* setDiagramExported, resetDiagram or clearState, isLoaded is true exactly
\* when setDiagramLoaded has been called since the last clearState, and
\* setSelectedElement and setDiagramName leave isDirty, isLoaded and currentXML
\* as they were.
DirtyFlagFollowsTheCalls ==
  [][ /\ hasUnsavedChanges(diagramState') = call'.modified
      /\ diagramState'.isLoaded = call'.loaded
      /\ call'.op \in {"setSelectedElement", "setDiagramName"}
           => /\ diagramState'.isDirty = diagramState.isDirty
              /\ diagramState'.isLoaded = diagramState.isLoaded
              /\ diagramState'.currentXML = diagramState.currentXML
    ]_vars

\* a loaded diagram that was modified has been renamed and is still modified
ModifiedDiagramRenamed ==
  /\ call.op = "setDiagramName"
  /\ call.modified
  /\ call.loaded
  /\ hasUnsavedChanges(diagramState)
  /\ diagramState.diagramName = "order"

(***************************************************************************)
(* PropertyInputComponent (components/index.ts): the validator of the      *)
(* input of one property, and SpecInput, where a value is entered in the   *)
(* input of a property and both the input and ValidationService validate   *)
(* it.                                                                     *)
(***************************************************************************)
\* PropertyInputComponent.validateRule: the message of the failed rule, "" for
\* null or an empty message, Thrown when new RegExp or the validator raises
PropertyInputValidateRule(rule, value) ==
  CASE rule.type = "required" ->
         IF \/ value.k \in {"null", "undefined"}
            \/ (value.k = "string" /\ value.s = "")
            \/ (value.k = "array" /\ value.a = <<>>)
         THEN rule.message ELSE ""
    [] rule.type = "minLength" ->
         IF value.k = "string" /\ rule.value.k = "number" /\ Len(value.s) < rule.value.n
         THEN rule.message ELSE ""
    [] rule.type = "maxLength" ->
         IF value.k = "string" /\ rule.value.k = "number" /\ Len(value.s) > rule.value.n
         THEN rule.message ELSE ""
    [] rule.type = "min" ->
         IF value.k = "number" /\ rule.value.k = "number" /\ value.n < rule.value.n
         THEN rule.message ELSE ""
    [] rule.type = "max" ->
         IF value.k = "number" /\ rule.value.k = "number" /\ value.n > rule.value.n
         THEN rule.message ELSE ""
    [] rule.type = "pattern" ->
         IF value.k = "string"
         THEN IF RegExpThrows(rule.value.s) THEN Thrown
              ELSE IF ~RegExpTest(rule.value.s, value.s) THEN rule.message ELSE ""
         ELSE ""
    [] rule.type = "custom" ->
         IF "customValidator" \notin DOMAIN rule THEN ""
         ELSE IF rule.customValidator = "throws" THEN Thrown
         ELSE IF rule.customValidator = "rejects" THEN rule.message ELSE ""
    [] OTHER -> ""

\* PropertyInputComponent.validateValue: validationErrors, and whether a rule
\* raised and ended the loop
RECURSIVE PropertyInputValidateValue(_, _, _)
PropertyInputValidateValue(validation, value, validationErrors) ==
  IF validation = <<>> THEN [validationErrors |-> validationErrors, thrown |-> FALSE]
  ELSE IF PropertyInputValidateRule(Head(validation), value) = Thrown
       THEN [validationErrors |-> validationErrors, thrown |-> TRUE]
       ELSE PropertyInputValidateValue(
              Tail(validation), value,
              IF PropertyInputValidateRule(Head(validation), value) # ""
              THEN Append(validationErrors, PropertyInputValidateRule(Head(validation), value))
              ELSE validationErrors)

\* the rules of the input, each with a message of its own, alone and after
\* 'required'
InputRules ==
  { Rule("required", Undefined, "Required"), Rule("min", Num(1), "Too small"), Rule("max", Num(10), "Too large"),
    Rule("minLength", Num(2), "Too short"), Rule("maxLength", Num(3), "Too long"),
    Rule("pattern", Str(IdPattern), "Invalid format") }
InputRuleLists ==
  { << rule >> : rule \in InputRules }
  \cup { << Rule("required", Undefined, "Required"), rule >> : rule \in InputRules \ {Rule("required", Undefined, "Required")} }

\* the value entered, what the input reports and what validateProperty returns
Entered(op, property, value, input, result) ==
  [op |-> op, elementId |-> ProbeId, property |-> property, value |-> value,
   validationErrors |-> input.validationErrors, thrown |-> input.thrown, result |-> result]

InitInput ==
  \E validation \in InputRuleLists : \E value \in ProbeValues :
    /\ propertiesMap = EmptyMap
    /\ selectedElementId = NoSelection
    /\ validationResults = EmptyMap
    /\ businessRuleResults = EmptyMap
    /\ selectedStream = [id |-> "", live |-> FALSE]
    /\ diagramState = setDiagramLoaded(DiagramState(FALSE, FALSE, {}, "", "Untitled Diagram"),
                                       {"UserTask_1"}, "Default Diagram")
    /\ diagram = {"UserTask_1"}
    /\ importPending = <<>>
    /\ businessObjects = EmptyMap
    /\ call = Entered("init", ProbeProperty(validation), value,
                      [validationErrors |-> <<>>, thrown |-> FALSE], ValidationResult(<<>>, <<>>))

\* the value is entered: the input validates it, and so does ValidationService
ValueEntered ==
  /\ call.op = "init"
  /\ call' = Entered("valueEntered", call.property, call.value,
                     PropertyInputValidateValue(call.property.validation, call.value, <<>>),
                     validateProperty(call.property, call.value, [assignee |-> call.value], ProbeContext))
  /\ UNCHANGED << propertiesMap, selectedElementId, validationResults, businessRuleResults,
                  selectedStream, diagramState, diagram, importPending, businessObjects >>

NextInput ==
  \/ ValueEntered

SpecInput == InitInput /\ [][NextInput]_vars

\* the input reports the rule as failing
InputReports(c, rule) == \E j \in 1..Len(c.validationErrors) : c.validationErrors[j] = rule.message
\* the result of validateProperty has an error with the tag of the rule
ServiceReports(c, rule) == \E j \in 1..Len(c.result.errors) : c.result.errors[j].rule = rule.type

\* C35: for a property whose rules are of the kinds required, minLength,
\* maxLength, min, max and pattern and every entered value, the input reports
\* a rule as failing exactly when validateProperty returns an error with the
\* tag of the rule.
InputAndServiceAgree ==
  call.op = "valueEntered"
  => \A i \in 1..Len(call.property.validation) :
       InputReports(call, call.property.validation[i]) <=> ServiceReports(call, call.property.validation[i])

(***************************************************************************)
(* Properties of the registry, checked where every registered type is      *)
(* selected (SpecSelect).                                                  *)
(***************************************************************************)
DistinctIds(schema) ==
  \A i \in 1..Len(schema.properties) : \A j \in 1..Len(schema.properties) :
    schema.properties[i].id = schema.properties[j].id => i = j
NamesAreIds(schema) ==
  \A i \in 1..Len(schema.properties) : schema.properties[i].name = schema.properties[i].id

\* C27: in every registered schema, and so in the schema of every record, no
\* two property definitions share an id, and the name of each property, the
\* key of its value in a record, equals its id.
SchemaIdsAreDistinctKeys ==
  /\ \A k \in 1..Len(ElementSchemas) : DistinctIds(ElementSchemas[k]) /\ NamesAreIds(ElementSchemas[k])
  /\ \A id \in DOMAIN propertiesMap :
       propertiesMap[id].schema # ""
         => /\ DistinctIds(getElementSchema(propertiesMap[id].schema))
            /\ NamesAreIds(getElementSchema(propertiesMap[id].schema))

EveryDefinitionHasItsOwnKey ==
  /\ call.op = "initializeElementProperties"
  /\ Has(propertiesMap, "Flow_1")
  /\ Cardinality(DOMAIN propertiesMap["Flow_1"].properties) = Len(getElementSchema("bpmn:SequenceFlow").properties)
  /\ Len(getElementSchema("bpmn:SequenceFlow").properties) = 9
====
